---- MODULE Spec2Model ----
(***************************************************************************)
(* Multi-tenant rules engine: the per-tenant Engine (program map, active-  *)
(* rule cache), the tenant-scoped PostgreSQL rule store and the            *)
(* MultiTenantEngineManager with its schema-update engine swap.            *)
(*                                                                         *)
(* Every call is split at the points where another goroutine can run      *)
(* between two accesses of shared state: one step per SQL statement, per   *)
(* critical section of Engine.mu / the cache mutex, per Manager lock or    *)
(* unlock.  Purely local work (CEL compilation, program evaluation) is     *)
(* folded into the step that publishes or consumes its result.             *)
(***************************************************************************)
EXTENDS Integers, Sequences, FiniteSets, TLC

(***************************************************************************)
(* Bounds of the model.                                                    *)
(***************************************************************************)
\* Calls that may be started in one behaviour; every call reads the clock.
MaxClock == 3
\* SQL statements that may fail (connection loss, timeout) in one behaviour.
MaxFaults == 1
\* Engine objects that may be constructed in one behaviour.
MaxEngines == 3
MaxArrays == 4

Tenants == {"tA", "tB"}
RuleIds == {"r1", "r2"}
Procs == {"p1", "p2"}

(***************************************************************************)
(* Go maps are functions with a finite domain.                             *)
(***************************************************************************)
MapPut(m, k, v) == [x \in (DOMAIN m) \cup {k} |-> IF x = k THEN v ELSE m[x]]
MapDel(m, k) == [x \in (DOMAIN m) \ {k} |-> m[x]]
EmptyMap == [x \in {} |-> ""]

(***************************************************************************)
(* Errors.  "" is Go's nil error.                                          *)
(***************************************************************************)
NoErr == ""
ErrNotFound == "not found"
ErrAlreadyExists == "already exists"
ErrStore == "store error"
ErrCompile == "compile error"
ErrNotCompiled == "not compiled"
ErrEval == "evaluation error"
ErrTenantNotFound == "tenant not found"

(***************************************************************************)
(* CEL expressions.  An expression is its source text; what the model      *)
(* keeps of CEL is which top-level variables an expression references,     *)
(* whether it parses, and what it yields on a facts payload.               *)
(***************************************************************************)
E_ADULT == "User.Age >= 18"
E_SENIOR == "User.Age >= 65"
E_TXN == "Transaction.Amount > 1000.0"
E_AGE == "User.Age"
E_SYNTAX == "User.Age >="
E_COSTLY == "User.Tags.all(x, User.Tags.all(y, User.Tags.all(z, x + y != z)))"
Exprs == {E_ADULT, E_SENIOR, E_TXN, E_AGE, E_SYNTAX, E_COSTLY}

ExprParses(e) == e # E_SYNTAX

ExprVars(e) ==
  IF e = E_TXN THEN {"Transaction"}
  ELSE IF e \in {E_ADULT, E_SENIOR, E_AGE, E_SYNTAX, E_COSTLY} THEN {"User"}
  ELSE {}

\* Facts payloads: top-level object name -> the one field the expressions read.
F_ADULT == [User |-> 25]
F_MINOR == [User |-> 16]
F_TXN == [Transaction |-> 1500]
FactsSet == {F_ADULT, F_MINOR, F_TXN}

(***************************************************************************)
(* Schemas: object name -> field name -> type name.  The CEL environment   *)
(* of a schema declares one dyn variable per object name, so an            *)
(* environment is the set of those names.                                  *)
(***************************************************************************)
S_USER == [User |-> [Age |-> "int"]]
S_BOTH == [User |-> [Age |-> "int", Name |-> "string"],
           Transaction |-> [Amount |-> "double"]]
S_TXN == [Transaction |-> [Amount |-> "double"]]
Schemas == {S_USER, S_BOTH, S_TXN}

\* An environment that declares the variable User whatever the schema.
CreateCELEnvFromSchema_UserOnly(schema) == {"User"}

CreateCELEnvFromSchema(schema) == DOMAIN schema

\* ValidateSchema's limits on the number of objects and of fields per object.
MaxObjects == 100
MaxFields == 200

\* isValidCELType
ValidCELTypes ==
  {"int", "int64", "float64", "string", "bool", "bytes", "timestamp", "duration"}

\* isReservedKeyword
ReservedKeywords ==
  {"true", "false", "null", "if", "else", "for", "while", "break", "continue",
   "return", "var", "let", "const", "function", "in", "as", "import", "package",
   "namespace", "loop", "void"}

\* The names used here that match ^[a-zA-Z_][a-zA-Z0-9_]*$ and have 1 to 100
\* characters.
WellFormedNames == {"User", "Transaction", "Age", "Name", "Amount", "in"}

\* validateIdentifier(name) returns nil
ValidIdentifier(name) == name \in WellFormedNames /\ name \notin ReservedKeywords

\* ValidateSchema(schema) returns nil
ValidSchema(schema) ==
  /\ DOMAIN schema # {}
  /\ Cardinality(DOMAIN schema) <= MaxObjects
  /\ \A o \in DOMAIN schema :
       /\ ValidIdentifier(o)
       /\ DOMAIN schema[o] # {}
       /\ Cardinality(DOMAIN schema[o]) <= MaxFields
       /\ \A f \in DOMAIN schema[o] :
            ValidIdentifier(f) /\ schema[o][f] \in ValidCELTypes

(***************************************************************************)
(* ValidateSchema on Go values.  A string that is checked character by     *)
(* character (an object or field name) is the sequence of its characters;  *)
(* a map is its key-value function together with whether it is nil.        *)
(***************************************************************************)
GoMap(kv) == [nil |-> FALSE, kv |-> kv]
NilMap == [nil |-> TRUE, kv |-> <<>>]

\* len(m); the length of a nil map is 0.
MapLen(m) == Cardinality(DOMAIN m.kv)

\* The character classes of the pattern ^[a-zA-Z_][a-zA-Z0-9_]*$
Letters ==
  {"a", "b", "c", "d", "e", "f", "g", "h", "i", "j", "k", "l", "m",
   "n", "o", "p", "q", "r", "s", "t", "u", "v", "w", "x", "y", "z",
   "A", "B", "C", "D", "E", "F", "G", "H", "I", "J", "K", "L", "M",
   "N", "O", "P", "Q", "R", "S", "T", "U", "V", "W", "X", "Y", "Z"}
DigitChars == <<"0", "1", "2", "3", "4", "5", "6", "7", "8", "9">>
FirstChars == Letters \cup {"_"}
RestChars == FirstChars \cup {DigitChars[i] : i \in 1..10}

\* validIdentifier.MatchString(name)
MatchesPattern(name) ==
  /\ Len(name) >= 1 /\ name[1] \in FirstChars
  /\ \A i \in 2..Len(name) : name[i] \in RestChars

\* isReservedKeyword on character sequences.
ReservedWords ==
  {<<"t", "r", "u", "e">>, <<"f", "a", "l", "s", "e">>,
   <<"n", "u", "l", "l">>, <<"i", "f">>, <<"e", "l", "s", "e">>,
   <<"f", "o", "r">>, <<"w", "h", "i", "l", "e">>,
   <<"b", "r", "e", "a", "k">>, <<"c", "o", "n", "t", "i", "n", "u", "e">>,
   <<"r", "e", "t", "u", "r", "n">>, <<"v", "a", "r">>, <<"l", "e", "t">>,
   <<"c", "o", "n", "s", "t">>, <<"f", "u", "n", "c", "t", "i", "o", "n">>,
   <<"i", "n">>, <<"a", "s">>, <<"i", "m", "p", "o", "r", "t">>,
   <<"p", "a", "c", "k", "a", "g", "e">>,
   <<"n", "a", "m", "e", "s", "p", "a", "c", "e">>, <<"l", "o", "o", "p">>,
   <<"v", "o", "i", "d">>}

\* A validateIdentifier that knows no reserved word.
validateIdentifier_NoKeywords(name) ==
  Len(name) >= 1 /\ Len(name) <= 100 /\ MatchesPattern(name)

\* validateIdentifier(name) == nil
validateIdentifier(name) ==
  /\ Len(name) # 0
  /\ ~(Len(name) > 100)
  /\ MatchesPattern(name)
  /\ name \notin ReservedWords

\* strings.TrimSpace on the type names used here.
TrimSpace(t) == IF t \in {" int", "int ", " int "} THEN "int" ELSE t

\* The error of the first check that fails for field f of object o, if any.
FieldErrors(fields, f) ==
  LET t == fields.kv[f] IN
  IF ~validateIdentifier(f) THEN {"invalid field name"}
  ELSE IF t = "" THEN {"empty type name"}
  ELSE IF TrimSpace(t) # t THEN {"type with leading/trailing whitespace"}
  ELSE IF t \notin ValidCELTypes THEN {"invalid type"}
  ELSE {}

\* The errors the loop body can return for object o: the range over the
\* fields visits them in any order.
ObjectErrors(schema, o) ==
  LET fields == schema.kv[o] IN
  IF ~validateIdentifier(o) THEN {"invalid object name"}
  ELSE IF MapLen(fields) = 0 THEN {"object must contain at least one field"}
  ELSE IF MapLen(fields) > MaxFields THEN {"too many fields"}
  ELSE UNION {FieldErrors(fields, f) : f \in DOMAIN fields.kv}

\* The values ValidateSchema(schema) can return: nil, or the error of the
\* first failing object in the order the range over the map visits them.
ValidateSchema(schema) ==
  IF MapLen(schema) = 0 THEN {"schema cannot be empty"}
  ELSE IF MapLen(schema) > MaxObjects THEN {"too many objects"}
  ELSE LET errs == UNION {ObjectErrors(schema, o) : o \in DOMAIN schema.kv}
       IN IF errs = {} THEN {NoErr} ELSE errs

\* env.Compile: parse and check; an undeclared variable is a compile error.
Compiles(env, e) == ExprParses(e) /\ ExprVars(e) \subseteq env

\* cel.CostLimit(1000000)
CostLimit == 1000000

\* The cost units the interpreter counts while it evaluates e on the facts
\* used here: the nested comprehension runs far beyond the limit, the
\* comparisons cost a few units.
Cost(e, facts) == IF e = E_COSTLY THEN 4 * CostLimit ELSE 3

\* A program created without the cost limit option.
Program_NoCostLimit(env, e) ==
  [expr |-> e, env |-> env, limited |-> FALSE, costLimit |-> 0]

\* A cel.Program: the checked expression together with its environment and
\* the options it was created with.
Program(env, e) ==
  [expr |-> e, env |-> env, limited |-> TRUE, costLimit |-> CostLimit]

\* prog.Eval(facts): the value, or an error when a referenced object is
\* missing from the facts or when the cost counted exceeds the program's
\* limit.
ProgEval(prog, facts) ==
  LET e == prog.expr IN
  IF ~(ExprVars(e) \subseteq DOMAIN facts) THEN [kind |-> "error", val |-> FALSE]
  ELSE IF prog.limited /\ Cost(e, facts) > prog.costLimit
    THEN [kind |-> "error", val |-> FALSE]
  ELSE IF e = E_COSTLY THEN [kind |-> "bool", val |-> TRUE]
  ELSE IF e = E_ADULT THEN [kind |-> "bool", val |-> facts.User >= 18]
  ELSE IF e = E_SENIOR THEN [kind |-> "bool", val |-> facts.User >= 65]
  ELSE IF e = E_TXN THEN [kind |-> "bool", val |-> facts.Transaction > 1000]
  ELSE [kind |-> "other", val |-> FALSE]

(***************************************************************************)
(* The rules table and the tenant-scoped PostgresRuleStore.  A table is    *)
(* the set of its rows; rules.id is the primary key and                    *)
(* (tenant_id, name) is unique.                                            *)
(***************************************************************************)
\* The Go struct rules.Rule, as Scan fills it from a row.
Rule(id, name, expression, active, createdAt, updatedAt) ==
  [id |-> id, name |-> name, expression |-> expression, active |-> active,
   createdAt |-> createdAt, updatedAt |-> updatedAt]

NoRule == Rule("", "", "", FALSE, 0, 0)

RuleRow(t, r) ==
  [id |-> r.id, tenant |-> t, name |-> r.name, expression |-> r.expression,
   active |-> r.active, createdAt |-> r.createdAt, updatedAt |-> r.updatedAt]

RowToRule(row) ==
  Rule(row.id, row.name, row.expression, row.active, row.createdAt, row.updatedAt)

\* A SELECT whose WHERE clause matches on the id alone.
SelectRule_AnyTenant(tbl, t, id) == {row \in tbl : row.id = id}

\* SELECT ... FROM rules WHERE id = $1 AND tenant_id = $2
SelectRule(tbl, t, id) == {row \in tbl : row.id = id /\ row.tenant = t}

\* The constraints an INSERT INTO rules must meet.
InsertAllowed(tbl, t, r) ==
  /\ \A row \in tbl : row.id # r.id
  /\ \A row \in tbl : ~(row.tenant = t /\ row.name = r.name)

\* INSERT INTO rules (...) VALUES ($1, ..., $7): the caller's timestamps.
InsertRule(tbl, t, r) == tbl \cup {RuleRow(t, r)}

\* The unique (tenant_id, name) constraint on an UPDATE of rule r.
UpdateAllowed(tbl, t, r) ==
  \A row \in tbl : ~(row.tenant = t /\ row.name = r.name /\ row.id # r.id)

\* An UPDATE that also stamps created_at.
UpdateRows_Restamp(tbl, t, r, now) ==
  {IF row.id = r.id /\ row.tenant = t
     THEN [row EXCEPT !.name = r.name, !.expression = r.expression,
                      !.active = r.active, !.createdAt = now, !.updatedAt = now]
     ELSE row : row \in tbl}

\* UPDATE rules SET name, expression, active, updated_at WHERE id AND tenant_id,
\* followed by the update_rules_updated_at trigger (updated_at = NOW()).
UpdateRows(tbl, t, r, now) ==
  {IF row.id = r.id /\ row.tenant = t
     THEN [row EXCEPT !.name = r.name, !.expression = r.expression,
                      !.active = r.active, !.updatedAt = now]
     ELSE row : row \in tbl}

\* A DELETE that removes no row.
DeleteRows_None(tbl, t, id) == tbl

\* DELETE FROM rules WHERE id = $1 AND tenant_id = $2
DeleteRows(tbl, t, id) == {row \in tbl : ~(row.id = id /\ row.tenant = t)}

\* SELECT ... WHERE tenant_id = $1 AND active = true
ActiveRows(tbl, t) == {row \in tbl : row.tenant = t /\ row.active}

\* A listing without ORDER BY: the active rows in any order.
ListActiveResults_Unordered(tbl, t) ==
  LET rows == ActiveRows(tbl, t)
      n == Cardinality(rows)
  IN {[i \in 1..n |-> RowToRule(f[i])] :
        f \in {g \in [1..n -> rows] : \A i, j \in 1..n : i # j => g[i] # g[j]}}

\* ORDER BY created_at ASC: every listing of the active rows in which
\* created_at never decreases; rows with equal created_at come in any order.
ListActiveResults(tbl, t) ==
  LET rows == ActiveRows(tbl, t)
      n == Cardinality(rows)
  IN {[i \in 1..n |-> RowToRule(f[i])] :
        f \in {g \in [1..n -> rows] :
                 /\ \A i, j \in 1..n : i # j => g[i] # g[j]
                 /\ \A i, j \in 1..n : i < j => g[i].createdAt <= g[j].createdAt}}

(***************************************************************************)
(* InMemoryRulesCache (no TTL).                                            *)
(***************************************************************************)
NewInMemoryRulesCache == [isValid |-> FALSE, rules |-> <<>>]

\* Set: store a copy and mark valid.
CacheSet(c, list) == [isValid |-> TRUE, rules |-> list]

\* Invalidate
CacheInvalidate(c) == [isValid |-> FALSE, rules |-> <<>>]

\* Get that hands out the stored slice itself: an empty list is then Go's
\* nil slice, which EvaluateAll takes for a miss.
CacheGet_NilForEmpty(c) ==
  IF c.isValid /\ c.rules # <<>> THEN <<TRUE, c.rules>> ELSE <<FALSE, <<>> >>

\* Get: <<hit, copy of the list>>; a miss is Go's nil slice.
CacheGet(c) == IF c.isValid THEN <<TRUE, c.rules>> ELSE <<FALSE, <<>> >>

(***************************************************************************)
(* Engine objects.                                                         *)
(***************************************************************************)
\* &Engine{env, store, cache, programs: make(map)} of NewEngineWithEnv; the
\* store is NewPostgresRuleStore(db, tenant).  mu is the Engine's RWMutex:
\* w is the goroutine holding it for writing, r the goroutines holding it
\* for reading.
NewEngineObject(t, env) ==
  [tenant |-> t, env |-> env, programs |-> EmptyMap,
   cache |-> NewInMemoryRulesCache, built |-> FALSE,
   mu |-> [w |-> "", r |-> {}]]

\* CompileRule's critical section: en.programs[ruleID] = prog
StoreProgram(en, id, e) ==
  [en EXCEPT !.programs = MapPut(en.programs, id, Program(en.env, e))]

\* A CompileRule that stores a program whatever env.Compile returned.
CompileRule_StoreAlways(en, id, e) == StoreProgram(en, id, e)

\* CompileRule: the Engine after the call; a compile error returns before
\* the programs map is touched.
CompileRule(en, id, e) ==
  IF Compiles(en.env, e) THEN StoreProgram(en, id, e) ELSE en

\* A delete that leaves the entry in the map.
DeleteProgram_Keep(en, id) == en

\* delete(en.programs, ruleID) under en.mu
DeleteProgram(en, id) == [en EXCEPT !.programs = MapDel(en.programs, id)]

\* The loop of CompileAllRules: the rules are compiled in order and the loop
\* returns at the first compile error, keeping the programs compiled so far.
RECURSIVE CompileList(_, _)
CompileList(en, list) ==
  IF list = <<>> THEN en
  ELSE IF ~Compiles(en.env, Head(list).expression) THEN en
  ELSE CompileList(StoreProgram(en, Head(list).id, Head(list).expression), Tail(list))

\* A check that takes every rule to compile.
AllCompile_Always(env, list) == TRUE

AllCompile(env, list) == \A i \in 1..Len(list) : Compiles(env, list[i].expression)

\* CompileAllRules on the list ListActive returned.  On success the cache is
\* set and NewEngineWithEnv returns the Engine (built); on a compile error the
\* Engine is dropped as it is.
CompileAllRules(en, list) ==
  IF AllCompile(en.env, list)
    THEN [CompileList(en, list) EXCEPT !.cache = CacheSet(en.cache, list), !.built = TRUE]
    ELSE CompileList(en, list)

\* The zero value of an Engine record, for a reference that is nil.
NoEngine == NewEngineObject("", {})

(***************************************************************************)
(* State.                                                                  *)
(***************************************************************************)
VARIABLES
  rules,     \* the rules table
  schemas,   \* the schemas table: rows [tenant, version, definition, active]
  clock,     \* time.Now() / NOW(), advanced by every call
  faults,    \* SQL statements that have failed so far
  heap,      \* the Engine objects constructed so far; an *Engine is an index
  engines,   \* MultiTenantEngineManager.engines: tenant -> TenantEngine
  mmu,       \* MultiTenantEngineManager.mu: [w: holder of the write lock, r: read holders]
  proc,      \* per goroutine: the call it is in, its arguments and locals
  mem        \* an InMemoryRulesCache with the slices and Rule objects its clients hold

vars == <<rules, schemas, clock, faults, heap, engines, mmu, proc, mem>>

\* A goroutine between calls.  After a call returns, the record keeps the
\* call's arguments and what it returned until the next call starts.
IdleProc ==
  [pc |-> "done", op |-> "", eng |-> 0, tenant |-> "", rule |-> NoRule,
   facts |-> F_ADULT, schema |-> S_USER, list |-> <<>>,
   results |-> <<>>, got |-> NoRule, err |-> NoErr, calls |-> <<>>,
   hit |-> FALSE, exists |-> FALSE, ret |-> 0, old |-> 0, start |-> 0,
   end |-> 0, ref |-> 0, snap |-> NoEngine, tenants |-> <<>>]

\* The record of goroutine pr starting call op; the engine reference it
\* obtained from GetEngine stays in hand (ref), with the Engine as it was
\* when the reference was handed out (snap).
Call(pr, op) ==
  [IdleProc EXCEPT !.op = op, !.ref = pr.ref, !.snap = pr.snap, !.pc = "run"]

\* return err
Return(pr, err) == [pr EXCEPT !.pc = "done", !.err = err]

Idle(p) == proc[p].pc = "done"
Quiescent == \A p \in Procs : Idle(p)

\* A SQL statement either runs (ok) or fails with a driver error; at most
\* MaxFaults statements fail in a behaviour.
Statement(ok) ==
  /\ ok \/ faults < MaxFaults
  /\ faults' = IF ok THEN faults ELSE faults + 1

\* Every call starts by reading the clock.
Tick == clock < MaxClock /\ clock' = clock + 1

\* The rule a caller passes: handleCreateRule stamps CreatedAt and UpdatedAt
\* with time.Now().
RuleInputs ==
  {Rule("r1", "n1", E_ADULT, TRUE, 0, 0),
   Rule("r1", "n1", E_SENIOR, TRUE, 0, 0),
   Rule("r1", "n1", E_SYNTAX, TRUE, 0, 0),
   Rule("r2", "n2", E_ADULT, TRUE, 0, 0),
   Rule("r2", "n2", E_ADULT, FALSE, 0, 0)}

Stamped(r, now) == [r EXCEPT !.createdAt = now, !.updatedAt = now]

Built == {e \in 1..Len(heap) : heap[e].built}

(***************************************************************************)
(* InMemoryRulesCache with the memory its clients share with it.  A []*Rule *)
(* is the address of its backing array, an array holds addresses of Rule   *)
(* objects, and address 0 is nil.  The client holds the list it built      *)
(* (arg) and the list the last Get returned (got).                         *)
(***************************************************************************)
NewMemory ==
  [objs |-> <<Rule("r1", "n1", E_ADULT, TRUE, 0, 0), Rule("r2", "n2", E_SENIOR, TRUE, 0, 0)>>,
   arrays |-> <<>>,
   cache |-> [isValid |-> FALSE, rules |-> 0],
   arg |-> 0, got |-> 0]

\* The rules a reader of the list at address a sees.
Deref(m, a) == [i \in 1..Len(m.arrays[a]) |-> m.objs[m.arrays[a][i]]]

\* What a Get of cache m.cache would show its caller: nothing, or the rules.
CacheView(m) ==
  IF m.cache.isValid THEN [valid |-> TRUE, rules |-> Deref(m, m.cache.rules)]
  ELSE [valid |-> FALSE, rules |-> <<>>]

\* The lists the client holds.
Held == {mem.arg, mem.got} \ {0}

\* rules := []*Rule{...}: the client builds a list of the Rule objects.
Client_NewList(l) ==
  /\ Len(mem.arrays) < MaxArrays
  /\ mem' = [mem EXCEPT !.arrays = Append(@, l), !.arg = Len(mem.arrays) + 1]
  /\ UNCHANGED <<rules, schemas, clock, faults, heap, engines, mmu, proc>>

\* A Set that stores the copy and leaves isValid as it was.
Cache_Set_Unmarked(a) ==
  /\ a \in Held
  /\ Len(mem.arrays) < MaxArrays
  /\ mem' = [mem EXCEPT !.arrays = Append(@, mem.arrays[a]),
                        !.cache.rules = Len(mem.arrays) + 1,
                        !.arg = a]
  /\ UNCHANGED <<rules, schemas, clock, faults, heap, engines, mmu, proc>>

\* Set: c.rules = make([]*Rule, len(rules)); copy(c.rules, rules); isValid = true
Cache_Set(a) ==
  /\ a \in Held
  /\ Len(mem.arrays) < MaxArrays
  /\ mem' = [mem EXCEPT !.arrays = Append(@, mem.arrays[a]),
                        !.cache = [isValid |-> TRUE, rules |-> Len(mem.arrays) + 1],
                        !.arg = a]
  /\ UNCHANGED <<rules, schemas, clock, faults, heap, engines, mmu, proc>>

\* IsValid with no TTL configured: the isValid field.
Cache_IsValid == mem.cache.isValid

\* Get: nil when not valid; else rulesCopy := make(...); copy(rulesCopy, c.rules)
Cache_Get ==
  /\ IF ~mem.cache.isValid
       THEN mem' = [mem EXCEPT !.got = 0]
       ELSE /\ Len(mem.arrays) < MaxArrays
            /\ mem' = [mem EXCEPT !.arrays = Append(@, mem.arrays[mem.cache.rules]),
                                  !.got = Len(mem.arrays) + 1]
  /\ UNCHANGED <<rules, schemas, clock, faults, heap, engines, mmu, proc>>

\* Invalidate: isValid = false; c.rules = nil
Cache_Invalidate ==
  /\ mem' = [mem EXCEPT !.cache = [isValid |-> FALSE, rules |-> 0]]
  /\ UNCHANGED <<rules, schemas, clock, faults, heap, engines, mmu, proc>>

\* list[i] = o: the client replaces an element of a list it holds.
Client_WriteElem(a, i, o) ==
  /\ a \in Held /\ i \in 1..Len(mem.arrays[a])
  /\ mem' = [mem EXCEPT !.arrays[a][i] = o]
  /\ UNCHANGED <<rules, schemas, clock, faults, heap, engines, mmu, proc>>

\* list[i].Name = n: the client writes a field of a rule of a list it holds.
Client_WriteField(a, i, n) ==
  /\ a \in Held /\ i \in 1..Len(mem.arrays[a])
  /\ mem' = [mem EXCEPT !.objs[mem.arrays[a][i]].name = n]
  /\ UNCHANGED <<rules, schemas, clock, faults, heap, engines, mmu, proc>>

(***************************************************************************)
(* PostgresRuleStore called directly (as the rule handlers and the store   *)
(* tests do) on the store of tenant t.                                     *)
(***************************************************************************)
\* PostgresRuleStore.Get: sql.ErrNoRows is "not found"
Store_Get(p, t, id) ==
  /\ Idle(p) /\ Tick
  /\ \E ok \in BOOLEAN :
       /\ Statement(ok)
       /\ LET sel == SelectRule(rules, t, id)
              c == [Call(proc[p], "store.Get") EXCEPT
                      !.tenant = t, !.rule.id = id, !.calls = <<"Get">>]
          IN proc' = [proc EXCEPT ![p] =
                        IF ~ok THEN Return(c, ErrStore)
                        ELSE IF sel = {} THEN Return(c, ErrNotFound)
                        ELSE Return([c EXCEPT !.got = RowToRule(CHOOSE row \in sel : TRUE)],
                                    NoErr)]
  /\ UNCHANGED <<mem, rules, schemas, heap, engines, mmu>>

\* PostgresRuleStore.ListActive
Store_ListActive(p, t) ==
  /\ Idle(p) /\ Tick
  /\ \E ok \in BOOLEAN :
       /\ Statement(ok)
       /\ LET c == [Call(proc[p], "store.ListActive") EXCEPT
                      !.tenant = t, !.calls = <<"ListActive">>]
          IN IF ok
               THEN \E l \in ListActiveResults(rules, t) :
                      proc' = [proc EXCEPT ![p] = Return([c EXCEPT !.list = l], NoErr)]
               ELSE proc' = [proc EXCEPT ![p] = Return(c, ErrStore)]
  /\ UNCHANGED <<mem, rules, schemas, heap, engines, mmu>>

\* PostgresRuleStore.Update, first statement: s.Get(rule.ID)
Store_Update_Get(p, t, r) ==
  /\ Idle(p) /\ Tick
  /\ \E ok \in BOOLEAN :
       /\ Statement(ok)
       /\ LET c == [Call(proc[p], "store.Update") EXCEPT
                      !.tenant = t, !.rule = [r EXCEPT !.updatedAt = clock'],
                      !.calls = <<"Update">>]
          IN proc' = [proc EXCEPT ![p] =
                        IF ~ok THEN Return(c, ErrStore)
                        ELSE IF SelectRule(rules, t, r.id) = {} THEN Return(c, ErrNotFound)
                        ELSE [c EXCEPT !.pc = "su_exec", !.exists = TRUE]]
  /\ UNCHANGED <<mem, rules, schemas, heap, engines, mmu>>

\* PostgresRuleStore.Update, second statement: UPDATE rules SET ...; no row
\* affected is "not found"
Store_Update_Exec(p) ==
  LET pr == proc[p] IN
  /\ pr.pc = "su_exec"
  /\ \E ok \in BOOLEAN :
       /\ Statement(ok)
       /\ IF ~ok
            THEN /\ proc' = [proc EXCEPT ![p] = Return(pr, ErrStore)]
                 /\ UNCHANGED rules
            ELSE IF SelectRule(rules, pr.tenant, pr.rule.id) = {}
            THEN /\ proc' = [proc EXCEPT ![p] = Return(pr, ErrNotFound)]
                 /\ UNCHANGED rules
            ELSE IF ~UpdateAllowed(rules, pr.tenant, pr.rule)
            THEN /\ proc' = [proc EXCEPT ![p] = Return(pr, ErrStore)]
                 /\ UNCHANGED rules
            ELSE /\ rules' = UpdateRows(rules, pr.tenant, pr.rule, clock)
                 /\ proc' = [proc EXCEPT ![p] = Return(pr, NoErr)]
  /\ UNCHANGED <<mem, schemas, clock, heap, engines, mmu>>

\* PostgresRuleStore.Delete: no row affected is "not found"
Store_Delete(p, t, id) ==
  /\ Idle(p) /\ Tick
  /\ \E ok \in BOOLEAN :
       /\ Statement(ok)
       /\ LET c == [Call(proc[p], "store.Delete") EXCEPT
                      !.tenant = t, !.rule.id = id, !.calls = <<"Delete">>]
          IN IF ~ok
               THEN /\ proc' = [proc EXCEPT ![p] = Return(c, ErrStore)]
                    /\ UNCHANGED rules
               ELSE IF SelectRule(rules, t, id) = {}
               THEN /\ proc' = [proc EXCEPT ![p] = Return(c, ErrNotFound)]
                    /\ UNCHANGED rules
               ELSE /\ rules' = DeleteRows(rules, t, id)
                    /\ proc' = [proc EXCEPT ![p] = Return(c, NoErr)]
  /\ UNCHANGED <<mem, schemas, heap, engines, mmu>>

\* PostgresRuleStore.Add, first statement: SELECT EXISTS(... id AND tenant_id);
\* the rule is the caller's, timestamps included.
Store_Add_Exists(p, t, r) ==
  /\ Idle(p) /\ Tick
  /\ \E ok \in BOOLEAN :
       /\ Statement(ok)
       /\ LET c == [Call(proc[p], "store.Add") EXCEPT
                      !.tenant = t, !.rule = r, !.calls = <<"Add">>]
          IN proc' = [proc EXCEPT ![p] =
                        IF ~ok THEN Return(c, ErrStore)
                        ELSE IF SelectRule(rules, t, r.id) # {}
                          THEN Return(c, ErrAlreadyExists)
                        ELSE [c EXCEPT !.pc = "sa_insert"]]
  /\ UNCHANGED <<mem, rules, schemas, heap, engines, mmu>>

\* PostgresRuleStore.Add, second statement: INSERT INTO rules; a constraint
\* violation is an error of the statement, wrapped as "failed to insert rule"
Store_Add_Insert(p) ==
  LET pr == proc[p] IN
  /\ pr.pc = "sa_insert"
  /\ \E ok \in BOOLEAN :
       /\ Statement(ok)
       /\ IF ok /\ InsertAllowed(rules, pr.tenant, pr.rule)
            THEN /\ rules' = InsertRule(rules, pr.tenant, pr.rule)
                 /\ proc' = [proc EXCEPT ![p] = Return(pr, NoErr)]
            ELSE /\ proc' = [proc EXCEPT ![p] = Return(pr, ErrStore)]
                 /\ UNCHANGED rules
  /\ UNCHANGED <<mem, schemas, clock, heap, engines, mmu>>

StoreAdd(p, T, R) ==
  \/ \E t \in T, r \in R : Store_Add_Exists(p, t, r)
  \/ Store_Add_Insert(p)

StoreCalls(p, T, R) ==
  \/ \E t \in T, r \in R : Store_Get(p, t, r.id)
  \/ \E t \in T : Store_ListActive(p, t)
  \/ \E t \in T, r \in R : Store_Update_Get(p, t, r)
  \/ Store_Update_Exec(p)
  \/ \E t \in T, r \in R : Store_Delete(p, t, r.id)

(***************************************************************************)
(* Engine.AddRule                                                          *)
(***************************************************************************)
\* _, err := en.store.Get(r.ID); if err == nil { return "already exists" }
AddRule_Get(p, e, r) ==
  /\ Idle(p) /\ e \in Built /\ Tick
  /\ \E ok \in BOOLEAN :
       /\ Statement(ok)
       /\ LET found == ok /\ SelectRule(rules, heap[e].tenant, r.id) # {}
              c == [Call(proc[p], "AddRule") EXCEPT
                      !.eng = e, !.rule = Stamped(r, clock'), !.calls = <<"Get">>]
          IN proc' = [proc EXCEPT ![p] =
                        IF found THEN Return(c, ErrAlreadyExists)
                        ELSE [c EXCEPT !.pc = "add_compile"]]
  /\ UNCHANGED <<mem, rules, schemas, heap, engines, mmu>>

\* en.CompileRule(r.ID, r.Expression)
AddRule_Compile(p) ==
  LET pr == proc[p] IN
  /\ pr.pc = "add_compile"
  /\ IF Compiles(heap[pr.eng].env, pr.rule.expression)
       THEN /\ heap' = [heap EXCEPT ![pr.eng] =
                          StoreProgram(@, pr.rule.id, pr.rule.expression)]
            /\ proc' = [proc EXCEPT ![p].pc = "add_exists"]
       ELSE /\ proc' = [proc EXCEPT ![p] = Return(pr, ErrCompile)]
            /\ UNCHANGED heap
  /\ UNCHANGED <<mem, rules, schemas, clock, faults, engines, mmu>>

\* en.store.Add(r), first statement: SELECT EXISTS(...)
AddRule_StoreExists(p) ==
  LET pr == proc[p] IN
  /\ pr.pc = "add_exists"
  /\ \E ok \in BOOLEAN :
       /\ Statement(ok)
       /\ LET exists == SelectRule(rules, heap[pr.eng].tenant, pr.rule.id) # {}
              c == [pr EXCEPT !.calls = Append(@, "Add")]
          IN proc' = [proc EXCEPT ![p] =
                        IF ~ok THEN [c EXCEPT !.pc = "add_rollback", !.err = ErrStore]
                        ELSE IF exists
                          THEN [c EXCEPT !.pc = "add_rollback", !.err = ErrAlreadyExists]
                        ELSE [c EXCEPT !.pc = "add_insert"]]
  /\ UNCHANGED <<mem, rules, schemas, clock, heap, engines, mmu>>

\* en.store.Add(r), second statement: INSERT INTO rules
AddRule_StoreInsert(p) ==
  LET pr == proc[p]
      t == heap[pr.eng].tenant
  IN
  /\ pr.pc = "add_insert"
  /\ \E ok \in BOOLEAN :
       /\ Statement(ok)
       /\ IF ok /\ InsertAllowed(rules, t, pr.rule)
            THEN /\ rules' = InsertRule(rules, t, pr.rule)
                 /\ proc' = [proc EXCEPT ![p].pc = "add_invalidate"]
            ELSE /\ proc' = [proc EXCEPT ![p].pc = "add_rollback", ![p].err = ErrStore]
                 /\ UNCHANGED rules
  /\ UNCHANGED <<mem, schemas, clock, heap, engines, mmu>>

\* store.Add failed: delete(en.programs, r.ID); return err
AddRule_Rollback(p) ==
  LET pr == proc[p] IN
  /\ pr.pc = "add_rollback"
  /\ heap' = [heap EXCEPT ![pr.eng] = DeleteProgram(@, pr.rule.id)]
  /\ proc' = [proc EXCEPT ![p] = Return(pr, pr.err)]
  /\ UNCHANGED <<mem, rules, schemas, clock, faults, engines, mmu>>

\* en.cache.Invalidate(); return nil
AddRule_Invalidate(p) ==
  LET pr == proc[p] IN
  /\ pr.pc = "add_invalidate"
  /\ heap' = [heap EXCEPT ![pr.eng].cache = CacheInvalidate(@)]
  /\ proc' = [proc EXCEPT ![p] = Return(pr, NoErr)]
  /\ UNCHANGED <<mem, rules, schemas, clock, faults, engines, mmu>>

(***************************************************************************)
(* Engine.UpdateRule                                                       *)
(***************************************************************************)
\* The rule handleUpdateRule passes: UpdatedAt stamped, CreatedAt left zero.
UpdateInput(r, now) == [r EXCEPT !.updatedAt = now]

\* en.CompileRule(r.ID, r.Expression)
UpdateRule_Compile(p, e, r) ==
  /\ Idle(p) /\ e \in Built /\ Tick
  /\ LET c == [Call(proc[p], "UpdateRule") EXCEPT
                 !.eng = e, !.rule = UpdateInput(r, clock'),
                 !.exists = r.id \in DOMAIN heap[e].programs]
     IN /\ heap' = [heap EXCEPT ![e] = CompileRule(@, r.id, r.expression)]
        /\ proc' = [proc EXCEPT ![p] =
                      IF Compiles(heap[e].env, r.expression)
                        THEN [c EXCEPT !.pc = "up_get"]
                        ELSE Return(c, ErrCompile)]
  /\ UNCHANGED <<mem, rules, schemas, faults, engines, mmu>>

\* en.store.Update(r), first statement: s.Get(rule.ID)
UpdateRule_StoreGet(p) ==
  LET pr == proc[p] IN
  /\ pr.pc = "up_get"
  /\ \E ok \in BOOLEAN :
       /\ Statement(ok)
       /\ LET found == SelectRule(rules, heap[pr.eng].tenant, pr.rule.id) # {}
              c == [pr EXCEPT !.calls = Append(@, "Update")]
          IN proc' = [proc EXCEPT ![p] =
                        IF ~ok THEN Return(c, ErrStore)
                        ELSE IF ~found THEN Return(c, ErrNotFound)
                        ELSE [c EXCEPT !.pc = "up_exec"]]
  /\ UNCHANGED <<mem, rules, schemas, clock, heap, engines, mmu>>

\* en.store.Update(r), second statement: UPDATE rules SET ...
UpdateRule_StoreExec(p) ==
  LET pr == proc[p]
      t == heap[pr.eng].tenant
  IN
  /\ pr.pc = "up_exec"
  /\ \E ok \in BOOLEAN :
       /\ Statement(ok)
       /\ IF ~ok
            THEN /\ proc' = [proc EXCEPT ![p] = Return(pr, ErrStore)]
                 /\ UNCHANGED rules
            ELSE IF SelectRule(rules, t, pr.rule.id) = {}
            THEN /\ proc' = [proc EXCEPT ![p] = Return(pr, ErrNotFound)]
                 /\ UNCHANGED rules
            ELSE IF ~UpdateAllowed(rules, t, pr.rule)
            THEN /\ proc' = [proc EXCEPT ![p] = Return(pr, ErrStore)]
                 /\ UNCHANGED rules
            ELSE /\ rules' = UpdateRows(rules, t, pr.rule, clock)
                 /\ proc' = [proc EXCEPT ![p].pc = "up_invalidate"]
  /\ UNCHANGED <<mem, schemas, clock, heap, engines, mmu>>

\* en.cache.Invalidate(); return nil
UpdateRule_Invalidate(p) ==
  LET pr == proc[p] IN
  /\ pr.pc = "up_invalidate"
  /\ heap' = [heap EXCEPT ![pr.eng].cache = CacheInvalidate(@)]
  /\ proc' = [proc EXCEPT ![p] = Return(pr, NoErr)]
  /\ UNCHANGED <<mem, rules, schemas, clock, faults, engines, mmu>>

(***************************************************************************)
(* Engine.DeleteRule                                                       *)
(***************************************************************************)
\* en.store.Delete(ruleID): DELETE FROM rules; no row affected is "not found"
DeleteRule_Store(p, e, id) ==
  /\ Idle(p) /\ e \in Built /\ Tick
  /\ \E ok \in BOOLEAN :
       /\ Statement(ok)
       /\ LET t == heap[e].tenant
              c == [Call(proc[p], "DeleteRule") EXCEPT
                      !.eng = e, !.rule.id = id, !.calls = <<"Delete">>,
                      !.exists = id \in DOMAIN heap[e].programs,
                      !.hit = heap[e].cache.isValid]
          IN IF ~ok
               THEN /\ proc' = [proc EXCEPT ![p] = Return(c, ErrStore)]
                    /\ UNCHANGED rules
               ELSE IF SelectRule(rules, t, id) = {}
               THEN /\ proc' = [proc EXCEPT ![p] = Return(c, ErrNotFound)]
                    /\ UNCHANGED rules
               ELSE /\ rules' = DeleteRows(rules, t, id)
                    /\ proc' = [proc EXCEPT ![p] = [c EXCEPT !.pc = "del_program"]]
  /\ UNCHANGED <<mem, schemas, heap, engines, mmu>>

\* delete(en.programs, ruleID)
DeleteRule_Program(p) ==
  LET pr == proc[p] IN
  /\ pr.pc = "del_program"
  /\ heap' = [heap EXCEPT ![pr.eng] = DeleteProgram(@, pr.rule.id)]
  /\ proc' = [proc EXCEPT ![p].pc = "del_invalidate"]
  /\ UNCHANGED <<mem, rules, schemas, clock, faults, engines, mmu>>

\* en.cache.Invalidate(); return nil
DeleteRule_Invalidate(p) ==
  LET pr == proc[p] IN
  /\ pr.pc = "del_invalidate"
  /\ heap' = [heap EXCEPT ![pr.eng].cache = CacheInvalidate(@)]
  /\ proc' = [proc EXCEPT ![p] = Return(pr, NoErr)]
  /\ UNCHANGED <<mem, rules, schemas, clock, faults, engines, mmu>>

(***************************************************************************)
(* Engine.Evaluate and Engine.EvaluateAll                                  *)
(***************************************************************************)
\* A result that counts every value but false as a match.
EvaluationResult_Truthy(r, out) ==
  [ruleID |-> r.id, ruleName |-> r.name,
   matched |-> out.kind = "other" \/ (out.kind = "bool" /\ out.val),
   err |-> IF out.kind = "error" THEN ErrEval ELSE NoErr]

\* The EvaluationResult built from prog.Eval's outcome.
EvaluationResult(r, out) ==
  [ruleID |-> r.id, ruleName |-> r.name,
   matched |-> out.kind = "bool" /\ out.val,
   err |-> IF out.kind = "error" THEN ErrEval ELSE NoErr]

NotCompiledResult(r) ==
  [ruleID |-> r.id, ruleName |-> r.name, matched |-> FALSE, err |-> ErrNotCompiled]

\* rule, err := en.store.Get(ruleID); if err != nil { return nil, err }
Evaluate_Get(p, e, id, f) ==
  /\ Idle(p) /\ e \in Built /\ Tick
  /\ \E ok \in BOOLEAN :
       /\ Statement(ok)
       /\ LET sel == SelectRule(rules, heap[e].tenant, id)
              c == [Call(proc[p], "Evaluate") EXCEPT
                      !.eng = e, !.rule.id = id, !.facts = f, !.calls = <<"Get">>,
                      !.start = clock']
          IN proc' = [proc EXCEPT ![p] =
                        IF ~ok THEN Return(c, ErrStore)
                        ELSE IF sel = {} THEN Return(c, ErrNotFound)
                        ELSE [c EXCEPT !.pc = "ev_lookup",
                                       !.got = RowToRule(CHOOSE row \in sel : TRUE)]]
  /\ UNCHANGED <<mem, rules, schemas, heap, engines, mmu>>

\* prog, exists := en.programs[ruleID]; then prog.Eval(facts): the record of
\* the call when it returns.
LookupAndEval(pr, en) ==
  LET id == pr.rule.id IN
  IF id \notin DOMAIN en.programs
    THEN Return(pr, ErrNotCompiled)
    ELSE LET res == EvaluationResult(pr.got, ProgEval(en.programs[id], pr.facts))
         IN Return([pr EXCEPT !.exists = TRUE, !.results = <<res>>], res.err)

\* The critical section of Evaluate and the evaluation that follows it.
Evaluate_Lookup(p) ==
  LET pr == proc[p] IN
  /\ pr.pc = "ev_lookup"
  /\ proc' = [proc EXCEPT ![p] = LookupAndEval(pr, heap[pr.eng])]
  /\ UNCHANGED <<mem, rules, schemas, clock, faults, heap, engines, mmu>>

\* A loop that returns at the first result that carries an error.
LoopOrReturn_StopOnError(pr) ==
  IF \/ Len(pr.results) >= Len(pr.list)
     \/ pr.results # <<>> /\ pr.results[Len(pr.results)].err # NoErr
    THEN Return(pr, NoErr)
    ELSE [pr EXCEPT !.pc = "ea_loop"]

\* The loop of EvaluateAll is over when every rule of the list has a result.
LoopOrReturn(pr) ==
  IF Len(pr.results) >= Len(pr.list) THEN Return(pr, NoErr)
  ELSE [pr EXCEPT !.pc = "ea_loop"]

\* rules := en.cache.Get()
EvaluateAll_CacheGet(p, e, f) ==
  /\ Idle(p) /\ e \in Built /\ Tick
  /\ LET got == CacheGet(heap[e].cache)
         c == [Call(proc[p], "EvaluateAll") EXCEPT
                 !.eng = e, !.facts = f, !.hit = heap[e].cache.isValid,
                 !.list = got[2]]
     IN proc' = [proc EXCEPT ![p] =
                   IF got[1] THEN LoopOrReturn(c) ELSE [c EXCEPT !.pc = "ea_list"]]
  /\ UNCHANGED <<mem, rules, schemas, faults, heap, engines, mmu>>

\* cache miss: rules, err = en.store.ListActive()
EvaluateAll_ListActive(p) ==
  LET pr == proc[p] IN
  /\ pr.pc = "ea_list"
  /\ \E ok \in BOOLEAN :
       /\ Statement(ok)
       /\ LET c == [pr EXCEPT !.calls = Append(@, "ListActive")] IN
          IF ok
            THEN \E l \in ListActiveResults(rules, heap[pr.eng].tenant) :
                   proc' = [proc EXCEPT ![p] = [c EXCEPT !.list = l, !.pc = "ea_set"]]
            ELSE proc' = [proc EXCEPT ![p] = Return(c, ErrStore)]
  /\ UNCHANGED <<mem, rules, schemas, clock, heap, engines, mmu>>

\* A miss that compiles the rules it listed, as CompileAllRules does, before
\* it sets the cache.
EvaluateAll_CacheSet_Recompile(p) ==
  LET pr == proc[p] IN
  /\ pr.pc = "ea_set"
  /\ heap' = [heap EXCEPT ![pr.eng] =
                [CompileList(@, pr.list) EXCEPT !.cache = CacheSet(@, pr.list)]]
  /\ proc' = [proc EXCEPT ![p] = LoopOrReturn(pr)]
  /\ UNCHANGED <<mem, rules, schemas, clock, faults, engines, mmu>>

\* en.cache.Set(rules)
EvaluateAll_CacheSet(p) ==
  LET pr == proc[p] IN
  /\ pr.pc = "ea_set"
  /\ heap' = [heap EXCEPT ![pr.eng].cache = CacheSet(@, pr.list)]
  /\ proc' = [proc EXCEPT ![p] = LoopOrReturn(pr)]
  /\ UNCHANGED <<mem, rules, schemas, clock, faults, engines, mmu>>

\* The result of one loop iteration for rule r on Engine record en.
RuleResult(en, r, facts) ==
  IF r.id \in DOMAIN en.programs
    THEN EvaluationResult(r, ProgEval(en.programs[r.id], facts))
    ELSE NotCompiledResult(r)

\* One iteration: prog, exists := en.programs[rule.ID]; evaluate; append.
EvaluateAll_Loop(p) ==
  LET pr == proc[p]
      res == RuleResult(heap[pr.eng], pr.list[Len(pr.results) + 1], pr.facts)
  IN
  /\ pr.pc = "ea_loop"
  /\ proc' = [proc EXCEPT ![p] = LoopOrReturn([pr EXCEPT !.results = Append(@, res)])]
  /\ UNCHANGED <<mem, rules, schemas, clock, faults, heap, engines, mmu>>

(***************************************************************************)
(* The calls on the Engines E: mutations with rules drawn from R,          *)
(* evaluations with facts drawn from F.                                    *)
(***************************************************************************)
Mutate(p, E, R) ==
  \/ \E e \in E \cap Built, r \in R : AddRule_Get(p, e, r)
  \/ AddRule_Compile(p)
  \/ AddRule_StoreExists(p)
  \/ AddRule_StoreInsert(p)
  \/ AddRule_Rollback(p)
  \/ AddRule_Invalidate(p)
  \/ \E e \in E \cap Built, r \in R : UpdateRule_Compile(p, e, r)
  \/ UpdateRule_StoreGet(p)
  \/ UpdateRule_StoreExec(p)
  \/ UpdateRule_Invalidate(p)
  \/ \E e \in E \cap Built, r \in R : DeleteRule_Store(p, e, r.id)
  \/ DeleteRule_Program(p)
  \/ DeleteRule_Invalidate(p)

EvaluateOne(p, E, F) ==
  \/ \E e \in E \cap Built, id \in RuleIds, f \in F : Evaluate_Get(p, e, id, f)
  \/ Evaluate_Lookup(p)

EvaluateAll(p, E, F) ==
  \/ \E e \in E \cap Built, f \in F : EvaluateAll_CacheGet(p, e, f)
  \/ EvaluateAll_ListActive(p)
  \/ EvaluateAll_CacheSet(p)
  \/ EvaluateAll_Loop(p)

(***************************************************************************)
(* The schemas table.                                                      *)
(***************************************************************************)
SchemaRow(t, version, definition, active) ==
  [tenant |-> t, version |-> version, definition |-> definition, active |-> active]

\* UPDATE schemas SET active = false WHERE tenant_id = $1
DeactivateSchemas(tbl, t) ==
  {IF row.tenant = t THEN [row EXCEPT !.active = FALSE] ELSE row : row \in tbl}

\* COALESCE(MAX(version), 0) + 1 over the tenant's rows
NextVersion(tbl, t) ==
  LET vs == {row.version : row \in {x \in tbl : x.tenant = t}}
  IN IF vs = {} THEN 1 ELSE (CHOOSE v \in vs : \A w \in vs : w <= v) + 1

\* INSERT INTO schemas (tenant_id, version, definition, active, created_at)
\* SELECT $1, COALESCE(MAX(version), 0) + 1, $2, true, NOW() ...
InsertSchema(tbl, t, definition) ==
  tbl \cup {SchemaRow(t, NextVersion(tbl, t), definition, TRUE)}

ActiveSchemas(tbl, t) == {row \in tbl : row.tenant = t /\ row.active}

(***************************************************************************)
(* MultiTenantEngineManager: the engines map under the RWMutex mu.         *)
(***************************************************************************)
TenantEngine(schema, e) == [schema |-> schema, engine |-> e]

\* m.mu.Lock() returns when no goroutine holds the lock in either mode.
CanLock_Unguarded(m) == TRUE

CanLock(m) == m.w = "" /\ m.r = {}

\* An RLock that returns while a writer holds the lock.
CanRLock_Unguarded(m) == TRUE

\* m.mu.RLock() returns when no writer holds the lock.
CanRLock(m) == m.w = ""

Lock(m, p) == [m EXCEPT !.w = p]

\* An Unlock that leaves the lock held.
Unlock_Keep(m) == m

Unlock(m) == [m EXCEPT !.w = ""]
RLock(m, p) == [m EXCEPT !.r = @ \cup {p}]
RUnlock(m, p) == [m EXCEPT !.r = @ \ {p}]

\* The Engine the map holds for tenant t; 0 when the map has no entry.
EngineOf(t) == IF t \in DOMAIN engines THEN engines[t].engine ELSE 0

\* A map write that leaves the entry as it was.
InstallEngine_Skip(m, t, schema, e) == m

\* m.engines[tenantID] = &TenantEngine{TenantID, Schema, Engine}
InstallEngine(m, t, schema, e) == MapPut(m, t, TenantEngine(schema, e))

\* An allocation that reuses the address of the most recent Engine.
AllocEngine_Reuse(h, en) == [h EXCEPT ![Len(h)] = en]

\* en := &Engine{...}: a fresh object; its reference is the new length.
AllocEngine(h, en) == Append(h, en)

\* Calls that will still construct an Engine.
WillAlloc == {q \in Procs : proc[q].pc \in {"uts_deactivate", "uts_insert",
                               "uts_alloc", "uts_unlock_create", "ct_alloc"}}

(***************************************************************************)
(* Manager.GetEngine                                                       *)
(***************************************************************************)
\* m.mu.RLock()
GetEngine_RLock(p, t) ==
  /\ Idle(p) /\ Tick
  /\ CanRLock(mmu)
  /\ mmu' = RLock(mmu, p)
  /\ proc' = [proc EXCEPT ![p] =
                [Call(proc[p], "GetEngine") EXCEPT
                   !.tenant = t, !.old = EngineOf(t), !.start = clock',
                   !.pc = "ge_read"]]
  /\ UNCHANGED <<mem, rules, schemas, faults, heap, engines>>

\* te, exists := m.engines[tenantID]; return te.Engine; deferred RUnlock
GetEngine_Read(p) ==
  LET pr == proc[p]
      e == EngineOf(pr.tenant)
  IN
  /\ pr.pc = "ge_read"
  /\ mmu' = RUnlock(mmu, p)
  /\ proc' = [proc EXCEPT ![p] =
                IF e = 0 THEN Return(pr, ErrTenantNotFound)
                ELSE Return([pr EXCEPT !.ret = e, !.ref = e, !.snap = heap[e]], NoErr)]
  /\ UNCHANGED <<mem, rules, schemas, clock, faults, heap, engines>>

(***************************************************************************)
(* Manager.UpdateTenantSchema                                              *)
(***************************************************************************)
\* m.mu.Lock(); defer m.mu.Unlock(); existingEngine, exists := m.engines[t]
UpdateTenantSchema_Lock(p, t, s) ==
  /\ Idle(p) /\ Tick
  /\ Len(heap) + Cardinality(WillAlloc) < MaxEngines
  /\ CanLock(mmu)
  /\ mmu' = Lock(mmu, p)
  /\ proc' = [proc EXCEPT ![p] =
                [Call(proc[p], "UpdateTenantSchema") EXCEPT
                   !.tenant = t, !.schema = s, !.old = EngineOf(t),
                   !.pc = IF t \in DOMAIN engines THEN "uts_deactivate"
                          ELSE "uts_unlock_create"]]
  /\ UNCHANGED <<mem, rules, schemas, faults, heap, engines>>

\* UPDATE schemas SET active = false WHERE tenant_id = $1
UpdateTenantSchema_Deactivate(p) ==
  LET pr == proc[p] IN
  /\ pr.pc = "uts_deactivate"
  /\ \E ok \in BOOLEAN :
       /\ Statement(ok)
       /\ IF ok
            THEN /\ schemas' = DeactivateSchemas(schemas, pr.tenant)
                 /\ proc' = [proc EXCEPT ![p].pc = "uts_insert"]
            ELSE /\ proc' = [proc EXCEPT ![p].pc = "uts_unlock", ![p].err = ErrStore]
                 /\ UNCHANGED schemas
  /\ UNCHANGED <<mem, rules, clock, heap, engines, mmu>>

\* INSERT INTO schemas ... RETURNING version
UpdateTenantSchema_Insert(p) ==
  LET pr == proc[p] IN
  /\ pr.pc = "uts_insert"
  /\ \E ok \in BOOLEAN :
       /\ Statement(ok)
       /\ IF ok
            THEN /\ schemas' = InsertSchema(schemas, pr.tenant, pr.schema)
                 /\ proc' = [proc EXCEPT ![p].pc = "uts_alloc"]
            ELSE /\ proc' = [proc EXCEPT ![p].pc = "uts_unlock", ![p].err = ErrStore]
                 /\ UNCHANGED schemas
  /\ UNCHANGED <<mem, rules, clock, heap, engines, mmu>>

\* env := CreateCELEnvFromSchema(schema); NewEngineWithEnv: en := &Engine{...}
NewEngine_Alloc(p) ==
  LET pr == proc[p] IN
  /\ pr.pc \in {"uts_alloc", "ct_alloc"}
  /\ heap' = AllocEngine(heap, NewEngineObject(pr.tenant, CreateCELEnvFromSchema(pr.schema)))
  /\ proc' = [proc EXCEPT ![p].ret = Len(heap'),
                          ![p].pc = IF pr.pc = "uts_alloc" THEN "uts_compile"
                                    ELSE "ct_compile"]
  /\ UNCHANGED <<mem, rules, schemas, clock, faults, engines, mmu>>

\* NewEngineWithEnv: en.CompileAllRules() (store.ListActive, compile, cache.Set)
NewEngine_Compile(p) ==
  LET pr == proc[p]
      after == IF pr.pc = "uts_compile" THEN "uts_list" ELSE "ct_store"
      failed == IF pr.pc = "uts_compile" THEN "uts_unlock" ELSE "ct_failed"
      Fail(err) == IF pr.op = "CreateTenant" THEN Return(pr, err)
                   ELSE [pr EXCEPT !.pc = failed, !.err = err]
  IN
  /\ pr.pc \in {"uts_compile", "ct_compile"}
  /\ \E ok \in BOOLEAN :
       /\ Statement(ok)
       /\ IF ok
            THEN \E l \in ListActiveResults(rules, pr.tenant) :
                   /\ heap' = [heap EXCEPT ![pr.ret] = CompileAllRules(@, l)]
                   /\ proc' = [proc EXCEPT ![p] =
                        IF AllCompile(heap[pr.ret].env, l)
                          THEN [pr EXCEPT !.pc = after, !.list = l]
                          ELSE Fail(ErrCompile)]
            ELSE /\ proc' = [proc EXCEPT ![p] = Fail(ErrStore)]
                 /\ UNCHANGED heap
  /\ UNCHANGED <<mem, rules, schemas, clock, engines, mmu>>

\* A statistics query whose failure is recorded while the call goes on to
\* install the new Engine.
UpdateTenantSchema_ListActive_SwapOnError(p) ==
  LET pr == proc[p] IN
  /\ pr.pc = "uts_list"
  /\ \E ok \in BOOLEAN :
       /\ Statement(ok)
       /\ IF ok
            THEN \E l \in ListActiveResults(rules, pr.tenant) :
                   proc' = [proc EXCEPT ![p].list = l, ![p].pc = "uts_swap"]
            ELSE proc' = [proc EXCEPT ![p].pc = "uts_swap", ![p].err = ErrStore]
  /\ UNCHANGED <<mem, rules, schemas, clock, heap, engines, mmu>>

\* activeRules, err := store.ListActive()
UpdateTenantSchema_ListActive(p) ==
  LET pr == proc[p] IN
  /\ pr.pc = "uts_list"
  /\ \E ok \in BOOLEAN :
       /\ Statement(ok)
       /\ IF ok
            THEN \E l \in ListActiveResults(rules, pr.tenant) :
                   proc' = [proc EXCEPT ![p].list = l, ![p].pc = "uts_swap"]
            ELSE proc' = [proc EXCEPT ![p].pc = "uts_unlock", ![p].err = ErrStore]
  /\ UNCHANGED <<mem, rules, schemas, clock, heap, engines, mmu>>

\* m.engines[tenantID] = &TenantEngine{..., Engine: newEngine}
UpdateTenantSchema_Swap(p) ==
  LET pr == proc[p] IN
  /\ pr.pc = "uts_swap"
  /\ engines' = InstallEngine(engines, pr.tenant, pr.schema, pr.ret)
  /\ proc' = [proc EXCEPT ![p].pc = "uts_unlock"]
  /\ UNCHANGED <<mem, rules, schemas, clock, faults, heap, mmu>>

\* The tenant has no engine: m.mu.Unlock(); defer m.mu.Lock();
\* return m.CreateTenant(tenantID, newSchema)
UpdateTenantSchema_UnlockForCreate(p) ==
  /\ proc[p].pc = "uts_unlock_create"
  /\ mmu' = Unlock(mmu)
  /\ proc' = [proc EXCEPT ![p].pc = "ct_alloc"]
  /\ UNCHANGED <<mem, rules, schemas, clock, faults, heap, engines>>

\* Manager.CreateTenant called by itself (handleCreateTenant does not; the
\* manager tests do): it starts at CreateCELEnvFromSchema.
CreateTenant_Call(p, t, s) ==
  /\ Idle(p) /\ Tick
  /\ Len(heap) + Cardinality(WillAlloc) < MaxEngines
  /\ proc' = [proc EXCEPT ![p] =
                [Call(proc[p], "CreateTenant") EXCEPT
                   !.tenant = t, !.schema = s, !.old = EngineOf(t), !.pc = "ct_alloc"]]
  /\ UNCHANGED <<mem, rules, schemas, faults, heap, engines, mmu>>

\* CreateTenant: m.mu.Lock(); m.engines[tenantID] = ...; m.mu.Unlock()
CreateTenant_Store(p) ==
  LET pr == proc[p] IN
  /\ pr.pc = "ct_store"
  /\ CanLock(mmu)
  /\ engines' = InstallEngine(engines, pr.tenant, pr.schema, pr.ret)
  /\ proc' = [proc EXCEPT ![p] = IF pr.op = "CreateTenant" THEN Return(pr, NoErr)
                                  ELSE [pr EXCEPT !.pc = "uts_relock"]]
  /\ UNCHANGED <<mem, rules, schemas, clock, faults, heap, mmu>>

\* CreateTenant returned (an error or nil): the deferred m.mu.Lock()
UpdateTenantSchema_Relock(p) ==
  /\ proc[p].pc \in {"uts_relock", "ct_failed"}
  /\ CanLock(mmu)
  /\ mmu' = Lock(mmu, p)
  /\ proc' = [proc EXCEPT ![p].pc = "uts_unlock"]
  /\ UNCHANGED <<mem, rules, schemas, clock, faults, heap, engines>>

\* The deferred m.mu.Unlock(); return err
UpdateTenantSchema_Unlock(p) ==
  LET pr == proc[p] IN
  /\ pr.pc = "uts_unlock"
  /\ mmu' = Unlock(mmu)
  /\ proc' = [proc EXCEPT ![p] = Return([pr EXCEPT !.end = clock], pr.err)]
  /\ UNCHANGED <<mem, rules, schemas, clock, faults, heap, engines>>

UpdateTenantSchema(p, T, S) ==
  \/ \E t \in T, s \in S : UpdateTenantSchema_Lock(p, t, s)
  \/ UpdateTenantSchema_Deactivate(p)
  \/ UpdateTenantSchema_Insert(p)
  \/ NewEngine_Alloc(p)
  \/ NewEngine_Compile(p)
  \/ UpdateTenantSchema_ListActive(p)
  \/ UpdateTenantSchema_Swap(p)
  \/ UpdateTenantSchema_UnlockForCreate(p)
  \/ CreateTenant_Store(p)
  \/ UpdateTenantSchema_Relock(p)
  \/ UpdateTenantSchema_Unlock(p)

GetEngine(p, T) ==
  \/ \E t \in T : GetEngine_RLock(p, t)
  \/ GetEngine_Read(p)

(***************************************************************************)
(* The critical sections, one lock operation at a time.  In the actions    *)
(* above, a critical section of Engine.mu is one step.  Here the Lock or   *)
(* RLock that opens a section is a step of its own and the map access with *)
(* the Unlock or RUnlock that closes it is the next, so that a goroutine   *)
(* can be seen inside a section and a goroutine can be seen waiting.       *)
(***************************************************************************)
\* The Engine record after en.mu.Unlock() / en.mu.RUnlock() by p.
Unlocked(en) == [en EXCEPT !.mu = Unlock(en.mu)]
RUnlocked(en, p) == [en EXCEPT !.mu = RUnlock(en.mu, p)]

\* Evaluate: en.mu.RLock()
Evaluate_RLock(p) ==
  LET pr == proc[p] IN
  /\ pr.pc = "ev_lookup"
  /\ CanRLock(heap[pr.eng].mu)
  /\ heap' = [heap EXCEPT ![pr.eng].mu = RLock(@, p)]
  /\ proc' = [proc EXCEPT ![p].pc = "ev_read"]
  /\ UNCHANGED <<mem, rules, schemas, clock, faults, engines, mmu>>

\* Evaluate: prog, exists := en.programs[ruleID]; en.mu.RUnlock(); evaluate
Evaluate_Read(p) ==
  LET pr == proc[p] IN
  /\ pr.pc = "ev_read"
  /\ heap' = [heap EXCEPT ![pr.eng] = RUnlocked(@, p)]
  /\ proc' = [proc EXCEPT ![p] = LookupAndEval(pr, heap[pr.eng])]
  /\ UNCHANGED <<mem, rules, schemas, clock, faults, engines, mmu>>

\* EvaluateAll, one iteration: en.mu.RLock()
EvaluateAll_RLock(p) ==
  LET pr == proc[p] IN
  /\ pr.pc = "ea_loop"
  /\ CanRLock(heap[pr.eng].mu)
  /\ heap' = [heap EXCEPT ![pr.eng].mu = RLock(@, p)]
  /\ proc' = [proc EXCEPT ![p].pc = "ea_read"]
  /\ UNCHANGED <<mem, rules, schemas, clock, faults, engines, mmu>>

\* EvaluateAll, one iteration: prog, exists := en.programs[rule.ID];
\* en.mu.RUnlock(); evaluate; append
EvaluateAll_Read(p) ==
  LET pr == proc[p]
      res == RuleResult(heap[pr.eng], pr.list[Len(pr.results) + 1], pr.facts)
  IN
  /\ pr.pc = "ea_read"
  /\ heap' = [heap EXCEPT ![pr.eng] = RUnlocked(@, p)]
  /\ proc' = [proc EXCEPT ![p] = LoopOrReturn([pr EXCEPT !.results = Append(@, res)])]
  /\ UNCHANGED <<mem, rules, schemas, clock, faults, engines, mmu>>

\* AddRule: en.CompileRule up to en.mu.Lock(); a compile error returns
\* without taking the lock
AddRule_CompileLock(p) ==
  LET pr == proc[p] IN
  /\ pr.pc = "add_compile"
  /\ IF Compiles(heap[pr.eng].env, pr.rule.expression)
       THEN /\ CanLock(heap[pr.eng].mu)
            /\ heap' = [heap EXCEPT ![pr.eng].mu = Lock(@, p)]
            /\ proc' = [proc EXCEPT ![p].pc = "add_store"]
       ELSE /\ proc' = [proc EXCEPT ![p] = Return(pr, ErrCompile)]
            /\ UNCHANGED heap
  /\ UNCHANGED <<mem, rules, schemas, clock, faults, engines, mmu>>

\* AddRule: en.programs[ruleID] = prog; en.mu.Unlock()
AddRule_Store(p) ==
  LET pr == proc[p] IN
  /\ pr.pc = "add_store"
  /\ heap' = [heap EXCEPT ![pr.eng] =
                Unlocked(StoreProgram(@, pr.rule.id, pr.rule.expression))]
  /\ proc' = [proc EXCEPT ![p].pc = "add_exists"]
  /\ UNCHANGED <<mem, rules, schemas, clock, faults, engines, mmu>>

\* AddRule, store.Add failed: en.mu.Lock()
AddRule_RollbackLock(p) ==
  LET pr == proc[p] IN
  /\ pr.pc = "add_rollback"
  /\ CanLock(heap[pr.eng].mu)
  /\ heap' = [heap EXCEPT ![pr.eng].mu = Lock(@, p)]
  /\ proc' = [proc EXCEPT ![p].pc = "add_undo"]
  /\ UNCHANGED <<mem, rules, schemas, clock, faults, engines, mmu>>

\* AddRule, store.Add failed: delete(en.programs, r.ID); en.mu.Unlock();
\* return err
AddRule_Undo(p) ==
  LET pr == proc[p] IN
  /\ pr.pc = "add_undo"
  /\ heap' = [heap EXCEPT ![pr.eng] = Unlocked(DeleteProgram(@, pr.rule.id))]
  /\ proc' = [proc EXCEPT ![p] = Return(pr, pr.err)]
  /\ UNCHANGED <<mem, rules, schemas, clock, faults, engines, mmu>>

\* UpdateRule: en.CompileRule up to en.mu.Lock(); a compile error returns
\* without taking the lock
UpdateRule_CompileLock(p, e, r) ==
  /\ Idle(p) /\ e \in Built /\ Tick
  /\ LET c == [Call(proc[p], "UpdateRule") EXCEPT
                 !.eng = e, !.rule = UpdateInput(r, clock'),
                 !.exists = r.id \in DOMAIN heap[e].programs]
     IN IF Compiles(heap[e].env, r.expression)
          THEN /\ CanLock(heap[e].mu)
               /\ heap' = [heap EXCEPT ![e].mu = Lock(@, p)]
               /\ proc' = [proc EXCEPT ![p] = [c EXCEPT !.pc = "up_store"]]
          ELSE /\ proc' = [proc EXCEPT ![p] = Return(c, ErrCompile)]
               /\ UNCHANGED heap
  /\ UNCHANGED <<mem, rules, schemas, faults, engines, mmu>>

\* UpdateRule: en.programs[ruleID] = prog; en.mu.Unlock()
UpdateRule_Store(p) ==
  LET pr == proc[p] IN
  /\ pr.pc = "up_store"
  /\ heap' = [heap EXCEPT ![pr.eng] =
                Unlocked(StoreProgram(@, pr.rule.id, pr.rule.expression))]
  /\ proc' = [proc EXCEPT ![p].pc = "up_get"]
  /\ UNCHANGED <<mem, rules, schemas, clock, faults, engines, mmu>>

\* DeleteRule: en.mu.Lock()
DeleteRule_Lock(p) ==
  LET pr == proc[p] IN
  /\ pr.pc = "del_program"
  /\ CanLock(heap[pr.eng].mu)
  /\ heap' = [heap EXCEPT ![pr.eng].mu = Lock(@, p)]
  /\ proc' = [proc EXCEPT ![p].pc = "del_delete"]
  /\ UNCHANGED <<mem, rules, schemas, clock, faults, engines, mmu>>

\* DeleteRule: delete(en.programs, ruleID); en.mu.Unlock()
DeleteRule_Delete(p) ==
  LET pr == proc[p] IN
  /\ pr.pc = "del_delete"
  /\ heap' = [heap EXCEPT ![pr.eng] = Unlocked(DeleteProgram(@, pr.rule.id))]
  /\ proc' = [proc EXCEPT ![p].pc = "del_invalidate"]
  /\ UNCHANGED <<mem, rules, schemas, clock, faults, engines, mmu>>

\* NewEngineWithEnv, CompileAllRules: rules, err := en.store.ListActive()
NewEngine_List(p) ==
  LET pr == proc[p]
      failed == IF pr.pc = "uts_compile" THEN "uts_unlock" ELSE "ct_failed"
  IN
  /\ pr.pc \in {"uts_compile", "ct_compile"}
  /\ \E ok \in BOOLEAN :
       /\ Statement(ok)
       /\ IF ok
            THEN \E l \in ListActiveResults(rules, pr.tenant) :
                   proc' = [proc EXCEPT ![p].list = l,
                              ![p].pc = IF pr.pc = "uts_compile" THEN "uts_ne_loop"
                                        ELSE "ct_ne_loop"]
            ELSE proc' = [proc EXCEPT ![p].pc = failed, ![p].err = ErrStore]
  /\ UNCHANGED <<mem, rules, schemas, clock, heap, engines, mmu>>

\* CompileAllRules, the loop: the next rule is compiled and the new Engine's
\* mu locked for its entry; after the last rule, en.cache.Set(rules).  The
\* ids of a list are distinct, so the map's size is the number compiled.
NewEngine_Lock(p) ==
  LET pr == proc[p]
      en == heap[pr.ret]
      k == Cardinality(DOMAIN en.programs) + 1
      uts == pr.pc = "uts_ne_loop"
  IN
  /\ pr.pc \in {"uts_ne_loop", "ct_ne_loop"}
  /\ IF k > Len(pr.list)
       THEN /\ heap' = [heap EXCEPT ![pr.ret].cache = CacheSet(@, pr.list),
                                    ![pr.ret].built = TRUE]
            /\ proc' = [proc EXCEPT ![p].pc = IF uts THEN "uts_list" ELSE "ct_store"]
       ELSE IF ~Compiles(en.env, pr.list[k].expression)
       THEN /\ proc' = [proc EXCEPT ![p].pc = IF uts THEN "uts_unlock" ELSE "ct_failed",
                                    ![p].err = ErrCompile]
            /\ UNCHANGED heap
       ELSE /\ CanLock(en.mu)
            /\ heap' = [heap EXCEPT ![pr.ret].mu = Lock(@, p)]
            /\ proc' = [proc EXCEPT ![p].pc = IF uts THEN "uts_ne_store"
                                              ELSE "ct_ne_store"]
  /\ UNCHANGED <<mem, rules, schemas, clock, faults, engines, mmu>>

\* CompileRule on the new Engine: en.programs[ruleID] = prog; en.mu.Unlock()
NewEngine_Store(p) ==
  LET pr == proc[p]
      r == pr.list[Cardinality(DOMAIN heap[pr.ret].programs) + 1]
  IN
  /\ pr.pc \in {"uts_ne_store", "ct_ne_store"}
  /\ heap' = [heap EXCEPT ![pr.ret] = Unlocked(StoreProgram(@, r.id, r.expression))]
  /\ proc' = [proc EXCEPT ![p].pc = IF pr.pc = "uts_ne_store" THEN "uts_ne_loop"
                                    ELSE "ct_ne_loop"]
  /\ UNCHANGED <<mem, rules, schemas, clock, faults, engines, mmu>>

\* CreateTenant: m.mu.Lock()
CreateTenant_Lock(p) ==
  /\ proc[p].pc = "ct_store"
  /\ CanLock(mmu)
  /\ mmu' = Lock(mmu, p)
  /\ proc' = [proc EXCEPT ![p].pc = "ct_write"]
  /\ UNCHANGED <<mem, rules, schemas, clock, faults, heap, engines>>

\* CreateTenant: m.engines[tenantID] = &TenantEngine{...}; m.mu.Unlock()
CreateTenant_Write(p) ==
  LET pr == proc[p] IN
  /\ pr.pc = "ct_write"
  /\ engines' = InstallEngine(engines, pr.tenant, pr.schema, pr.ret)
  /\ mmu' = Unlock(mmu)
  /\ proc' = [proc EXCEPT ![p] = IF pr.op = "CreateTenant" THEN Return(pr, NoErr)
                                  ELSE [pr EXCEPT !.pc = "uts_relock"]]
  /\ UNCHANGED <<mem, rules, schemas, clock, faults, heap>>

(***************************************************************************)
(* Manager.ListTenants and Manager.DeleteTenant                            *)
(***************************************************************************)
\* The orders in which a range over a map with key set S can visit the keys.
Orderings(S) ==
  {s \in [1..Cardinality(S) -> S] : \A i, j \in 1..Cardinality(S) : s[i] = s[j] => i = j}

\* m.mu.RLock()
ListTenants_RLock(p) ==
  /\ Idle(p) /\ Tick
  /\ CanRLock(mmu)
  /\ mmu' = RLock(mmu, p)
  /\ proc' = [proc EXCEPT ![p] = [Call(proc[p], "ListTenants") EXCEPT !.pc = "lt_read"]]
  /\ UNCHANGED <<mem, rules, schemas, faults, heap, engines>>

\* for tenantID := range m.engines { append }; deferred RUnlock
ListTenants_Read(p) ==
  LET pr == proc[p] IN
  /\ pr.pc = "lt_read"
  /\ mmu' = RUnlock(mmu, p)
  /\ \E s \in Orderings(DOMAIN engines) :
       proc' = [proc EXCEPT ![p] = Return([pr EXCEPT !.tenants = s], NoErr)]
  /\ UNCHANGED <<mem, rules, schemas, clock, faults, heap, engines>>

\* A delete that leaves the map as it is.
RemoveEngine_Keep(m, t) == m

\* delete(m.engines, tenantID)
RemoveEngine(m, t) == MapDel(m, t)

\* m.mu.Lock()
DeleteTenant_Lock(p, t) ==
  /\ Idle(p) /\ Tick
  /\ CanLock(mmu)
  /\ mmu' = Lock(mmu, p)
  /\ proc' = [proc EXCEPT ![p] =
                [Call(proc[p], "DeleteTenant") EXCEPT
                   !.tenant = t, !.old = EngineOf(t), !.pc = "dt_delete"]]
  /\ UNCHANGED <<mem, rules, schemas, faults, heap, engines>>

\* if !exists { return error }; delete(m.engines, tenantID); deferred Unlock
DeleteTenant_Delete(p) ==
  LET pr == proc[p] IN
  /\ pr.pc = "dt_delete"
  /\ mmu' = Unlock(mmu)
  /\ IF pr.tenant \in DOMAIN engines
       THEN /\ engines' = RemoveEngine(engines, pr.tenant)
            /\ proc' = [proc EXCEPT ![p] = Return(pr, NoErr)]
       ELSE /\ proc' = [proc EXCEPT ![p] = Return(pr, ErrTenantNotFound)]
            /\ UNCHANGED engines
  /\ UNCHANGED <<mem, rules, schemas, clock, faults, heap>>

\* The calls on Engine e with every lock operation a step.
EngineSteps(p, e, R, F) ==
  \/ \E id \in RuleIds, f \in F : Evaluate_Get(p, e, id, f)
  \/ Evaluate_RLock(p)
  \/ Evaluate_Read(p)
  \/ \E f \in F : EvaluateAll_CacheGet(p, e, f)
  \/ EvaluateAll_ListActive(p)
  \/ EvaluateAll_CacheSet(p)
  \/ EvaluateAll_RLock(p)
  \/ EvaluateAll_Read(p)
  \/ \E r \in R : AddRule_Get(p, e, r)
  \/ AddRule_CompileLock(p)
  \/ AddRule_Store(p)
  \/ AddRule_StoreExists(p)
  \/ AddRule_StoreInsert(p)
  \/ AddRule_RollbackLock(p)
  \/ AddRule_Undo(p)
  \/ AddRule_Invalidate(p)
  \/ \E r \in R : UpdateRule_CompileLock(p, e, r)
  \/ UpdateRule_Store(p)
  \/ UpdateRule_StoreGet(p)
  \/ UpdateRule_StoreExec(p)
  \/ UpdateRule_Invalidate(p)
  \/ \E r \in R : DeleteRule_Store(p, e, r.id)
  \/ DeleteRule_Lock(p)
  \/ DeleteRule_Delete(p)
  \/ DeleteRule_Invalidate(p)

\* The calls on the Manager with every lock operation a step.
ManagerSteps(p, T, S) ==
  \/ GetEngine(p, T)
  \/ ListTenants_RLock(p)
  \/ ListTenants_Read(p)
  \/ \E t \in T : DeleteTenant_Lock(p, t)
  \/ DeleteTenant_Delete(p)
  \/ \E t \in T, s \in S : UpdateTenantSchema_Lock(p, t, s)
  \/ UpdateTenantSchema_Deactivate(p)
  \/ UpdateTenantSchema_Insert(p)
  \/ NewEngine_Alloc(p)
  \/ NewEngine_List(p)
  \/ NewEngine_Lock(p)
  \/ NewEngine_Store(p)
  \/ UpdateTenantSchema_ListActive(p)
  \/ UpdateTenantSchema_Swap(p)
  \/ UpdateTenantSchema_UnlockForCreate(p)
  \/ CreateTenant_Lock(p)
  \/ CreateTenant_Write(p)
  \/ UpdateTenantSchema_Relock(p)
  \/ UpdateTenantSchema_Unlock(p)

(***************************************************************************)
(* Initial states: the database as the tests seed it, and the Manager      *)
(* after LoadAllTenants built one Engine per tenant with an active schema. *)
(***************************************************************************)
\* NewEngineWithEnv on the list its ListActive returned.
NewEngineWithEnv(t, env, list) == CompileAllRules(NewEngineObject(t, env), list)

InitRuleTables ==
  {{},
   {RuleRow("tA", Rule("r1", "n1", E_ADULT, TRUE, 0, 0))},
   {RuleRow("tA", Rule("r1", "n1", E_ADULT, TRUE, 0, 0)),
    RuleRow("tB", Rule("r2", "n1", E_ADULT, TRUE, 0, 0))}}

Init ==
  /\ rules \in InitRuleTables
  /\ schemas = {SchemaRow(t, 1, S_USER, TRUE) : t \in Tenants}
  /\ clock = 0
  /\ faults = 0
  /\ \E la \in ListActiveResults(rules, "tA"), lb \in ListActiveResults(rules, "tB") :
       heap = <<NewEngineWithEnv("tA", CreateCELEnvFromSchema(S_USER), la),
                NewEngineWithEnv("tB", CreateCELEnvFromSchema(S_USER), lb)>>
  /\ engines = [t \in Tenants |-> TenantEngine(S_USER, IF t = "tA" THEN 1 ELSE 2)]
  /\ mmu = [w |-> "", r |-> {}]
  /\ proc = [p \in Procs |-> IdleProc]
  /\ mem = NewMemory

\* Concurrent AddRule, UpdateRule and DeleteRule calls on tenant tA's Engine.
Next == \E p \in Procs : Mutate(p, {1}, RuleInputs)

Spec == Init /\ [][Next]_vars

(***************************************************************************)
(* SpecCache: EvaluateAll calls concurrent with mutations of the rule set  *)
(* of tenant tA's Engine.                                                  *)
(***************************************************************************)
CacheInputs ==
  {Rule("r1", "n1", E_ADULT, TRUE, 0, 0),
   Rule("r2", "n2", E_SENIOR, TRUE, 0, 0)}

NextCache ==
  \E p \in Procs : \/ EvaluateAll(p, {1}, {F_ADULT, F_TXN})
                   \/ Mutate(p, {1}, CacheInputs)

SpecCache == Init /\ [][NextCache]_vars

(***************************************************************************)
(* SpecMgr: the Manager as the server runs it.  Tenant tA was loaded by    *)
(* LoadAllTenants; tenant tB was created through POST /tenants, which      *)
(* writes the tenants row only, so it has no schema row and no engine.     *)
(* Requests look an Engine up with GetEngine and evaluate on the reference *)
(* they got, while schema updates replace Engines.                         *)
(***************************************************************************)
InitMgr ==
  /\ rules \in InitRuleTables
  /\ schemas = {SchemaRow("tA", 1, S_USER, TRUE)}
  /\ clock = 0
  /\ faults = 0
  /\ \E la \in ListActiveResults(rules, "tA") :
       heap = <<NewEngineWithEnv("tA", CreateCELEnvFromSchema(S_USER), la)>>
  /\ engines = [t \in {"tA"} |-> TenantEngine(S_USER, 1)]
  /\ mmu = [w |-> "", r |-> {}]
  /\ proc = [p \in Procs |-> IdleProc]
  /\ mem = NewMemory

SchemaInputs == {S_BOTH, S_TXN}

NextMgr ==
  \E p \in Procs : \/ GetEngine(p, Tenants)
                   \/ UpdateTenantSchema(p, Tenants, SchemaInputs)
                   \/ EvaluateOne(p, {proc[p].ref}, {F_ADULT})
                   \/ EvaluateAll(p, {proc[p].ref}, {F_ADULT})

SpecMgr == InitMgr /\ [][NextMgr]_vars

(***************************************************************************)
(* SpecTenant: the Manager with CreateTenant, DeleteTenant, ListTenants    *)
(* and GetEngine called concurrently, next to schema updates (whose steps  *)
(* include the construction of the Engine and the write of the map entry   *)
(* that CreateTenant runs).                                                *)
(***************************************************************************)
TenantSchemas == {S_USER, S_TXN}

NextTenant ==
  \E p \in Procs : \/ \E t \in Tenants, s \in TenantSchemas : CreateTenant_Call(p, t, s)
                   \/ \E t \in Tenants : DeleteTenant_Lock(p, t)
                   \/ DeleteTenant_Delete(p)
                   \/ ListTenants_RLock(p)
                   \/ ListTenants_Read(p)
                   \/ GetEngine(p, Tenants)
                   \/ UpdateTenantSchema(p, Tenants, {S_BOTH})

SpecTenant == InitMgr /\ [][NextTenant]_vars

(***************************************************************************)
(* SpecEval: Evaluate calls concurrent with mutations on tenant tA's       *)
(* Engine.                                                                 *)
(***************************************************************************)
NextEval ==
  \E p \in Procs : \/ EvaluateOne(p, {1}, {F_ADULT, F_TXN})
                   \/ Mutate(p, {1}, CacheInputs)

SpecEval == Init /\ [][NextEval]_vars

(***************************************************************************)
(* SpecResult: Evaluate calls on tenant tA's Engine whose rules yield      *)
(* true, false, an integer or an evaluation error, concurrent with the     *)
(* calls that put those rules there.                                       *)
(***************************************************************************)
ResultInputs ==
  {Rule("r1", "n1", E_AGE, TRUE, 0, 0),
   Rule("r2", "n2", E_SENIOR, TRUE, 0, 0)}

NextResult ==
  \E p \in Procs : \/ EvaluateOne(p, {1}, {F_ADULT, F_TXN})
                   \/ Mutate(p, {1}, ResultInputs)

SpecResult == Init /\ [][NextResult]_vars

(***************************************************************************)
(* SpecCost: Evaluate and EvaluateAll calls on tenant tA's Engine, one of  *)
(* whose rules costs more to evaluate than the limit allows.               *)
(***************************************************************************)
CostInputs ==
  {Rule("r1", "n1", E_COSTLY, TRUE, 0, 0),
   Rule("r2", "n2", E_ADULT, TRUE, 0, 0)}

NextCost ==
  \E p \in Procs : \/ EvaluateOne(p, {1}, {F_ADULT})
                   \/ EvaluateAll(p, {1}, {F_ADULT})
                   \/ Mutate(p, {1}, CostInputs)

SpecCost == Init /\ [][NextCost]_vars

(***************************************************************************)
(* SpecAlias: one InMemoryRulesCache and a client that builds lists of two  *)
(* Rule objects, passes them to Set, takes lists from Get, and writes to   *)
(* the lists it holds and to the rules in them.                            *)
(***************************************************************************)
NextAlias ==
  \/ \E l \in [1..1 -> 1..2] \cup [1..2 -> 1..2] : Client_NewList(l)
  \/ \E a \in 1..MaxArrays : Cache_Set(a)
  \/ Cache_Get
  \/ Cache_Invalidate
  \/ \E a \in 1..MaxArrays, i \in 1..2, o \in 1..2 : Client_WriteElem(a, i, o)
  \/ \E a \in 1..MaxArrays, i \in 1..2, n \in {"n1", "n2"} : Client_WriteField(a, i, n)

SpecAlias == Init /\ [][NextAlias]_vars

(***************************************************************************)
(* SpecCacheOps: one InMemoryRulesCache without TTL and a client that      *)
(* builds lists of zero, one or two rules, passes them to Set, calls Get   *)
(* and Invalidate, and replaces elements of the lists it holds.            *)
(***************************************************************************)
ListInputs == {<<>>} \cup [1..1 -> 1..2] \cup [1..2 -> 1..2]

NextCacheOps ==
  \/ \E l \in ListInputs : Client_NewList(l)
  \/ \E a \in 1..MaxArrays : Cache_Set(a)
  \/ Cache_Get
  \/ Cache_Invalidate
  \/ \E a \in 1..MaxArrays, i \in 1..2, o \in 1..2 : Client_WriteElem(a, i, o)

SpecCacheOps == Init /\ [][NextCacheOps]_vars

(***************************************************************************)
(* SpecIso: calls scoped to tenant tB (its store, its Engine) that name    *)
(* rule ids of either tenant.                                              *)
(***************************************************************************)
IsoInputs ==
  {Rule("r1", "n1", E_SENIOR, TRUE, 0, 0),
   Rule("r2", "n1", E_SENIOR, FALSE, 0, 0)}

NextIso ==
  \E p \in Procs : \/ StoreCalls(p, {"tB"}, IsoInputs)
                   \/ EvaluateOne(p, {2}, {F_ADULT})

SpecIso == Init /\ [][NextIso]_vars

(***************************************************************************)
(* SpecStore: concurrent calls of the PostgresRuleStore of either tenant,  *)
(* by callers that built and stamped their rule at time 0.                 *)
(***************************************************************************)
StoreInputs ==
  {Rule("r1", "n1", E_ADULT, TRUE, 0, 0),
   Rule("r2", "n1", E_SENIOR, TRUE, 0, 0),
   Rule("r2", "n2", E_SENIOR, TRUE, 0, 0)}

NextStore ==
  \E p \in Procs : \/ StoreAdd(p, Tenants, StoreInputs)
                   \/ StoreCalls(p, Tenants, StoreInputs)

SpecStore == Init /\ [][NextStore]_vars

(***************************************************************************)
(* SpecLock: every call of the Engine of tenant tA and of the Manager,     *)
(* with each Lock and RLock a step of its own.  Tenant tB has no engine.   *)
(* The rule of tenant tA was created at time 0 and the clock reads 1.      *)
(***************************************************************************)
LockInputs ==
  {Rule("r1", "n1", E_SENIOR, TRUE, 0, 0),
   Rule("r2", "n2", E_ADULT, TRUE, 0, 0),
   Rule("r2", "n2", E_SYNTAX, TRUE, 0, 0)}

InitLock ==
  /\ rules = {RuleRow("tA", Rule("r1", "n1", E_ADULT, TRUE, 0, 0))}
  /\ schemas = {SchemaRow("tA", 1, S_USER, TRUE)}
  /\ clock = 1
  /\ faults = 0
  /\ \E la \in ListActiveResults(rules, "tA") :
       heap = <<NewEngineWithEnv("tA", CreateCELEnvFromSchema(S_USER), la)>>
  /\ engines = [t \in {"tA"} |-> TenantEngine(S_USER, 1)]
  /\ mmu = [w |-> "", r |-> {}]
  /\ proc = [p \in Procs |-> IdleProc]
  /\ mem = NewMemory

NextLock ==
  \E p \in Procs : \/ EngineSteps(p, 1, LockInputs, {F_ADULT})
                   \/ ManagerSteps(p, Tenants, {S_BOTH})

SpecLock == InitLock /\ [][NextLock]_vars

(***************************************************************************)
(* SpecRelock: the calls on the Manager alone, each Lock and RLock a step  *)
(* of its own, from a state LoadAllTenants leaves.  A goroutine that is    *)
(* inside a call keeps running: the Go scheduler runs every runnable       *)
(* goroutine, and a Lock or RLock that can return does so once the other   *)
(* callers have left their critical sections.                              *)
(***************************************************************************)
NextRelock == \E p \in Procs : ManagerSteps(p, Tenants, {S_BOTH})

Running(p) == ~Idle(p) /\ ManagerSteps(p, Tenants, {S_BOTH})

\* The state LoadAllTenants leaves when tenant tA has one stored rule.
InitRelock ==
  InitMgr /\ rules = {RuleRow("tA", Rule("r1", "n1", E_ADULT, TRUE, 0, 0))}

SpecRelock ==
  InitRelock /\ [][NextRelock]_vars /\ \A p \in Procs : WF_vars(Running(p))

(***************************************************************************)
(* SpecSwap: one goroutine updates schemas through the Manager and adds,   *)
(* updates, deletes and evaluates rules of tenant tA on the Engine the map *)
(* holds, one call after the other.                                        *)
(***************************************************************************)
Main == CHOOSE p \in Procs : TRUE

SwapInputs ==
  {Rule("r1", "n1", E_ADULT, FALSE, 0, 0),
   Rule("r2", "n2", E_ADULT, TRUE, 0, 0)}

NextSwap ==
  \E p \in {Main} : \/ UpdateTenantSchema(p, Tenants, {S_BOTH, S_TXN})
                    \/ Mutate(p, {EngineOf("tA")}, SwapInputs)
                    \/ EvaluateOne(p, {EngineOf("tA")}, {F_ADULT})

SpecSwap == InitMgr /\ [][NextSwap]_vars

(***************************************************************************)
(* SpecHandler: a request handler that looks tenant tA's Engine up with    *)
(* GetEngine and calls AddRule on the reference it got, as handleCreateRule *)
(* does, while another goroutine updates schemas of tenants tA and tB.     *)
(***************************************************************************)
HandlerInputs == {Rule("r2", "n2", E_ADULT, TRUE, 0, 0)}

NextHandler ==
  \/ \E p \in {Main} :
       \/ GetEngine(p, {"tA"})
       \/ \E e \in {proc[p].ref} \cap Built, r \in HandlerInputs : AddRule_Get(p, e, r)
       \/ AddRule_Compile(p)
       \/ AddRule_StoreExists(p)
       \/ AddRule_StoreInsert(p)
       \/ AddRule_Rollback(p)
       \/ AddRule_Invalidate(p)
  \/ \E p \in Procs \ {Main} : UpdateTenantSchema(p, Tenants, {S_BOTH})

SpecHandler == InitMgr /\ [][NextHandler]_vars

(***************************************************************************)
(* SpecValidate: ValidateSchema called on schemas at and around each of    *)
(* its limits.                                                             *)
(***************************************************************************)
\* A name of k characters, and the i-th of a series of distinct names.
LongName(k) == [i \in 1..k |-> "a"]
NumberedName(i) ==
  <<"F", DigitChars[(i \div 100) + 1], DigitChars[((i \div 10) % 10) + 1],
    DigitChars[(i % 10) + 1]>>

NameInputs ==
  {<<"U", "s", "e", "r">>, <<"_", "x", "1">>, <<"i", "n">>, <<"I", "n">>,
   <<"t", "r", "u", "e">>, <<"1", "a">>, <<"a", "-", "b">>, <<"a", " ">>, <<>>,
   LongName(100), LongName(101)}

TypeInputs == {"int", "duration", "Int", " int", "int ", "", "double"}

\* Schema{o: {f: t}}
OneField(o, f, t) == GoMap([n \in {o} |-> GoMap([m \in {f} |-> t])])

\* A map with k numbered keys, each with value v.
Numbered(k, v) == GoMap([n \in {NumberedName(i) : i \in 1..k} |-> v])

ValidatorInputs ==
  {OneField(o, f, t) : o \in NameInputs, f \in NameInputs, t \in TypeInputs}
  \cup {NilMap, GoMap(<<>>),
        GoMap([n \in {<<"U">>} |-> NilMap]),
        GoMap([n \in {<<"U">>} |-> GoMap(<<>>)]),
        Numbered(MaxObjects, Numbered(1, "int")),
        Numbered(MaxObjects + 1, Numbered(1, "int")),
        GoMap([n \in {<<"U">>} |-> Numbered(MaxFields, "int")]),
        GoMap([n \in {<<"U">>} |-> Numbered(MaxFields + 1, "int")]),
        GoMap([n \in {<<"U">>, <<"T">>} |->
                 IF n = <<"U">> THEN Numbered(2, "int") ELSE Numbered(1, "double")])}

\* err := ValidateSchema(schema)
ValidateSchema_Call(p, schema) ==
  /\ Idle(p) /\ Tick
  /\ \E e \in ValidateSchema(schema) :
       proc' = [proc EXCEPT ![p] =
                  Return([Call(proc[p], "ValidateSchema") EXCEPT !.schema = schema], e)]
  /\ UNCHANGED <<mem, rules, schemas, faults, heap, engines, mmu>>

NextValidate == \E p \in {Main} : \E schema \in ValidatorInputs : ValidateSchema_Call(p, schema)

SpecValidate == Init /\ [][NextValidate]_vars

(***************************************************************************)
(* Claims about the locks (SpecLock).                                      *)
(***************************************************************************)
\* Goroutine p is inside a critical section of Engine e's mu in which it
\* writes the programs map: the next step of p is the write.
InWrite(p, e) ==
  \/ proc[p].pc \in {"add_store", "add_undo", "up_store", "del_delete"} /\ proc[p].eng = e
  \/ proc[p].pc \in {"uts_ne_store", "ct_ne_store"} /\ proc[p].ret = e

\* Goroutine p is inside a critical section in which it reads the programs
\* map of Engine e: the next step of p is the read.
InRead(p, e) == proc[p].pc \in {"ev_read", "ea_read"} /\ proc[p].eng = e

\* The next step of p writes (or reads and writes) the Manager's engines map.
MgrWrite(p) == proc[p].pc \in {"uts_swap", "ct_write", "dt_delete"}

\* The next step of p reads the Manager's engines map.
MgrRead(p) == proc[p].pc \in {"ge_read", "lt_read"}

\* C17: no data race is reachable.  A goroutine about to read a programs map
\* holds that Engine's mu (for reading) and no goroutine holds it for
\* writing; a goroutine about to write a programs map holds the mu for
\* writing, alone; the same for the Manager's engines map and the Manager's
\* mu.  Every step that changes a programs map or the engines map is a step
\* of a goroutine inside such a write section.
C17_NoDataRace ==
  /\ [](\A p \in Procs :
          /\ \A e \in 1..Len(heap) :
               /\ InWrite(p, e) =>
                    /\ heap[e].mu.w = p /\ heap[e].mu.r = {}
                    /\ \A q \in Procs \ {p} : ~InWrite(q, e) /\ ~InRead(q, e)
               /\ InRead(p, e) => p \in heap[e].mu.r /\ heap[e].mu.w = ""
          /\ MgrWrite(p) =>
               /\ mmu.w = p /\ mmu.r = {}
               /\ \A q \in Procs \ {p} : ~MgrWrite(q) /\ ~MgrRead(q)
          /\ MgrRead(p) => p \in mmu.r /\ mmu.w = "")
  /\ [][/\ \A e \in 1..Len(heap) :
             heap'[e].programs # heap[e].programs
               => \E p \in Procs : InWrite(p, e) /\ proc'[p] # proc[p]
        /\ engines' # engines
             => \E p \in Procs : MgrWrite(p) /\ proc'[p] # proc[p]]_vars

\* A goroutine is inside a read section of Engine 1 while another has
\* reached the Lock of a write section of the same Engine and waits; and a
\* goroutine is about to write the engines map while another waits to read.
C17_Witness ==
  \E p, q \in Procs :
    /\ p # q
    /\ InRead(p, 1)
    /\ proc[q].pc \in {"add_compile", "add_rollback", "del_program"}
    /\ proc[q].eng = 1
    /\ ~CanLock(heap[1].mu)

\* C18: a writer excludes all readers for the duration of its mutation, so
\* no evaluation observes part of a mutation: when no statement has failed,
\* an Evaluate that found a program returns the outcome of the expression of
\* the rule it read from the store, on its facts.
C18_NoPartialMutationObserved ==
  \A p \in Procs :
    LET pr == proc[p] IN
    ( /\ pr.op = "Evaluate" /\ pr.pc = "done" /\ pr.exists
      /\ faults = 0 )
    => pr.results =
         <<EvaluationResult(pr.got,
             ProgEval(Program(heap[pr.eng].env, pr.got.expression), pr.facts))>>

\* The steps that continue the call goroutine p is in.
LockContinue(p) ==
  \/ Evaluate_RLock(p) \/ Evaluate_Read(p)
  \/ EvaluateAll_ListActive(p) \/ EvaluateAll_CacheSet(p)
  \/ EvaluateAll_RLock(p) \/ EvaluateAll_Read(p)
  \/ AddRule_CompileLock(p) \/ AddRule_Store(p) \/ AddRule_StoreExists(p)
  \/ AddRule_StoreInsert(p) \/ AddRule_RollbackLock(p) \/ AddRule_Undo(p)
  \/ AddRule_Invalidate(p)
  \/ UpdateRule_Store(p) \/ UpdateRule_StoreGet(p) \/ UpdateRule_StoreExec(p)
  \/ UpdateRule_Invalidate(p)
  \/ DeleteRule_Lock(p) \/ DeleteRule_Delete(p) \/ DeleteRule_Invalidate(p)
  \/ GetEngine_Read(p) \/ ListTenants_Read(p) \/ DeleteTenant_Delete(p)
  \/ UpdateTenantSchema_Deactivate(p) \/ UpdateTenantSchema_Insert(p)
  \/ NewEngine_Alloc(p) \/ NewEngine_List(p) \/ NewEngine_Lock(p)
  \/ NewEngine_Store(p)
  \/ UpdateTenantSchema_ListActive(p) \/ UpdateTenantSchema_Swap(p)
  \/ UpdateTenantSchema_UnlockForCreate(p)
  \/ CreateTenant_Lock(p) \/ CreateTenant_Write(p)
  \/ UpdateTenantSchema_Relock(p) \/ UpdateTenantSchema_Unlock(p)

EngineOps == {"Evaluate", "EvaluateAll", "AddRule", "UpdateRule", "DeleteRule"}

\* The Engines whose mu goroutine p holds, and whether it holds the Manager's.
HeldEngines(p) == {e \in 1..Len(heap) : heap[e].mu.w = p \/ p \in heap[e].mu.r}
HoldsManager(p) == mmu.w = p \/ p \in mmu.r

\* C19: the Manager lock and the Engine locks are never taken in orders that
\* can form a cycle, and calls do not deadlock.  A call of the Engine leaves
\* the Manager lock alone and never holds it; a goroutine that holds a lock
\* can always take its next step, so nobody who holds a lock waits; a
\* goroutine between calls holds no lock; and while a call is in progress
\* some call in progress can take a step.
C19_NoLockCycle ==
  /\ [](/\ \A p \in Procs :
             /\ proc[p].op \in EngineOps /\ ~Idle(p) => ~HoldsManager(p)
             /\ (HoldsManager(p) \/ HeldEngines(p) # {}) => ENABLED LockContinue(p)
             /\ Idle(p) => ~HoldsManager(p) /\ HeldEngines(p) = {}
        /\ ~Quiescent => \E p \in Procs : ~Idle(p) /\ ENABLED LockContinue(p))
  /\ [][\A p \in Procs :
          proc'[p] # proc[p] /\ proc'[p].op \in EngineOps => mmu' = mmu]_vars

\* UpdateTenantSchema holds the Manager lock and the new Engine's lock while
\* a call of tenant tA's Engine is inside a critical section of its own.
C19_Witness ==
  \E p, q \in Procs :
    /\ proc[p].pc = "uts_ne_store"
    /\ mmu.w = p /\ heap[proc[p].ret].mu.w = p
    /\ proc[q].op \in EngineOps
    /\ HeldEngines(q) = {1}

(***************************************************************************)
(* Claims about schema changes (SpecSwap).                                 *)
(***************************************************************************)
\* Schema s2 only adds objects or fields to schema s1.
Additive(s1, s2) ==
  \A o \in DOMAIN s1 :
    /\ o \in DOMAIN s2
    /\ \A f \in DOMAIN s1[o] : f \in DOMAIN s2[o] /\ s2[o][f] = s1[o][f]

\* What Evaluate(id, facts) on Engine e returns in the current state, when
\* it runs alone and no statement fails.
EvaluateNow(e, id, facts) ==
  LET sel == SelectRule(rules, heap[e].tenant, id)
      c == [IdleProc EXCEPT !.op = "Evaluate", !.eng = e, !.rule.id = id,
                            !.facts = facts]
  IN IF sel = {} THEN Return(c, ErrNotFound)
     ELSE LookupAndEval([c EXCEPT !.got = RowToRule(CHOOSE row \in sel : TRUE)],
                        heap[e])

Matched(ret) == ret.results # <<>> /\ ret.results[1].matched

\* C20: when UpdateTenantSchema is about to replace the Engine of a tenant
\* whose schema S1 by the Engine built for a schema S2 that only adds to
\* S1, every expression that compiles under S1 compiles under S2, and every
\* Evaluate that returns matched = true on the Engine the map holds returns
\* matched = true on the Engine the swap installs, for the same facts.
C20_AdditiveSchemaKeepsMatches ==
  \A p \in Procs :
    LET pr == proc[p] IN
    ( /\ pr.pc = "uts_swap"
      /\ faults = 0
      /\ \A q \in Procs \ {p} : Idle(q)
      /\ Additive(engines[pr.tenant].schema, pr.schema) )
    => /\ \A e \in Exprs :
            Compiles(CreateCELEnvFromSchema(engines[pr.tenant].schema), e)
              => Compiles(CreateCELEnvFromSchema(pr.schema), e)
       /\ \A id \in RuleIds, f \in FactsSet :
            Matched(EvaluateNow(EngineOf(pr.tenant), id, f))
              => Matched(EvaluateNow(pr.ret, id, f))

(***************************************************************************)
(* Claims about the program map and the store (Spec).                      *)
(***************************************************************************)
\* The program Engine e would hold for rule id if it had been compiled from
\* the expression the store holds now.
CompiledFromStore(e, id) ==
  /\ id \in DOMAIN heap[e].programs
  /\ \E row \in SelectRule(rules, heap[e].tenant, id) :
       heap[e].programs[id] = Program(heap[e].env, row.expression)

\* C1: in every state reached by a sequence or interleaving of AddRule,
\* UpdateRule and DeleteRule calls (failed calls included), every key of an
\* Engine's programs map is the id of a rule in that tenant's store, and the
\* program was compiled from the expression the store holds for it.  Stated
\* for the states in which every call has returned.
C1_ProgramsMatchStore ==
  Quiescent =>
    \A e \in Built : \A id \in DOMAIN heap[e].programs : CompiledFromStore(e, id)

\* C10: when UpdateRule(r) has compiled the new expression and the store
\* update then failed, on return the programs entry of r.id is the program
\* of the expression the store still holds.  Stated for a call that ran
\* alone, on a rule that is in the store.
C10_FailedUpdateRestoresProgram ==
  \A p \in Procs :
    LET pr == proc[p] IN
    ( /\ pr.pc = "done" /\ pr.op = "UpdateRule"
      /\ pr.err \in {ErrStore, ErrNotFound}
      /\ \A q \in Procs \ {p} : proc[q].op = ""
      /\ SelectRule(rules, heap[pr.eng].tenant, pr.rule.id) # {} )
    => CompiledFromStore(pr.eng, pr.rule.id)

\* Goroutine p starts call op in this step.
Starts(p, op) ==
  proc[p].pc = "done" /\ proc'[p] # proc[p] /\ proc'[p].op = op

\* C11: an UpdateRule whose expression does not compile returns the compile
\* error in the step that starts it, and that step changes neither the rules
\* table nor any Engine: the programs entry stays what it was and the cache
\* keeps its validity.
C11_FailedCompileChangesNothing ==
  [][\A p \in Procs :
       ( /\ Starts(p, "UpdateRule")
         /\ ~Compiles(heap[proc'[p].eng].env, proc'[p].rule.expression) )
       => /\ proc'[p].pc = "done" /\ proc'[p].err = ErrCompile
          /\ rules' = rules
          /\ heap' = heap]_vars

\* An UpdateRule with a syntax error has returned the compile error on a
\* rule that is stored and compiled, with the cache still valid.
C11_Witness ==
  \E p \in Procs :
    /\ proc[p].op = "UpdateRule" /\ proc[p].pc = "done"
    /\ proc[p].err = ErrCompile /\ proc[p].exists
    /\ proc[p].rule.expression = E_SYNTAX
    /\ CompiledFromStore(proc[p].eng, proc[p].rule.id)
    /\ heap[proc[p].eng].cache.isValid

\* C12: an AddRule of an id the store already held when the call started
\* returns "already exists", and the programs entry of that id is still the
\* program of the stored expression.  Stated for a call that ran alone, so
\* that a row it did not stamp was there before it.
C12_ExistingIdLeftAlone ==
  \A p \in Procs :
    LET pr == proc[p] IN
    ( /\ pr.op = "AddRule" /\ pr.pc = "done"
      /\ \A q \in Procs \ {p} : proc[q].op = ""
      /\ \E row \in SelectRule(rules, heap[pr.eng].tenant, pr.rule.id) :
           row.createdAt # pr.rule.createdAt )
    => /\ pr.err = ErrAlreadyExists
       /\ CompiledFromStore(pr.eng, pr.rule.id)

\* The rows of r.id that carry the timestamp the call of pr stamped on r.
WrittenBy(pr) ==
  {row \in SelectRule(rules, heap[pr.eng].tenant, pr.rule.id) :
     row.createdAt = pr.rule.createdAt}

C14_DeleteOrderAndFrame ==
  [][\A p \in Procs :
       LET pr == proc[p]
           nx == proc'[p]
       IN
       /\ (Starts(p, "DeleteRule") /\ nx.pc = "done")
          => /\ nx.err \in {ErrStore, ErrNotFound}
             /\ rules' = rules /\ heap' = heap
       /\ (Starts(p, "DeleteRule") /\ nx.pc # "done")
          => /\ nx.pc = "del_program"
             /\ SelectRule(rules, heap[nx.eng].tenant, nx.rule.id) # {}
             /\ SelectRule(rules', heap[nx.eng].tenant, nx.rule.id) = {}
             /\ heap' = heap
       /\ (pr.pc = "del_program" /\ nx # pr)
          => /\ nx.pc = "del_invalidate"
             /\ heap' = [heap EXCEPT ![pr.eng].programs = MapDel(@, pr.rule.id)]
             /\ rules' = rules
       /\ (pr.pc = "del_invalidate" /\ nx # pr)
          => /\ nx.pc = "done" /\ nx.err = NoErr
             /\ heap' = [heap EXCEPT ![pr.eng].cache = NewInMemoryRulesCache]
             /\ rules' = rules]_vars

\* A DeleteRule whose DELETE failed has returned the error; the program and
\* the valid cache it found are still there.
C14_Witness ==
  \E p \in Procs :
    /\ proc[p].op = "DeleteRule" /\ proc[p].pc = "done"
    /\ proc[p].err = ErrStore /\ proc[p].exists /\ proc[p].hit
    /\ proc[p].rule.id \in DOMAIN heap[proc[p].eng].programs
    /\ heap[proc[p].eng].cache.isValid

(***************************************************************************)
(* Claims about the active-rule cache (SpecCache).                         *)
(***************************************************************************)
\* C2: whenever no Engine call is in progress and the cache is valid, the
\* cached list is what store.ListActive() returns at that moment.
C2_ValidCacheIsListActive ==
  Quiescent =>
    \A e \in Built :
      heap[e].cache.isValid =>
        heap[e].cache.rules \in ListActiveResults(rules, heap[e].tenant)

\* C8: EvaluateAll issues no store call when the cache is valid and exactly
\* one, ListActive, when it is not, whatever the number of active rules.
C8_NoNPlusOne ==
  \A p \in Procs :
    LET pr == proc[p] IN
    pr.op = "EvaluateAll" =>
      /\ pr.hit => pr.calls = <<>>
      /\ ~pr.hit => pr.calls \in {<<>>, <<"ListActive">>}
      /\ (~pr.hit /\ pr.pc \in {"ea_set", "ea_loop", "done"}) => pr.calls = <<"ListActive">>

\* A cold EvaluateAll that went through two rules, and a warm one that did.
C8_Witness ==
  /\ \E p \in Procs :
       /\ proc[p].pc = "done" /\ proc[p].op = "EvaluateAll"
       /\ ~proc[p].hit /\ Len(proc[p].results) = 2
  /\ \E p \in Procs :
       /\ proc[p].pc = "done" /\ proc[p].op = "EvaluateAll"
       /\ proc[p].hit /\ Len(proc[p].results) >= 1

C9_NoStoreAccessWhenCompiled ==
  \A p \in Procs :
    (proc[p].op = "Evaluate" /\ proc[p].exists) => proc[p].calls = <<>>

\* The ids of the rules the table holds for tenant t.
StoredIds(t) == {row.id : row \in {x \in rules : x.tenant = t}}

\* C7: for a rule id stored for tenant tA, Get, Update and Delete on tB's
\* store and Evaluate on tB's Engine return no rule and no result and fail
\* with "not found" (with the driver's error when the statement itself
\* failed); tB's ListActive holds no rule of tA; and tA's rows and tA's
\* Engine stay as they were built.
C7_TenantIsolation ==
  /\ \A p \in Procs :
       LET pr == proc[p] IN
       /\ ( /\ pr.pc = "done"
            /\ \/ pr.op \in {"store.Get", "store.Update", "store.Delete"} /\ pr.tenant = "tB"
               \/ pr.op = "Evaluate" /\ heap[pr.eng].tenant = "tB"
            /\ pr.rule.id \in StoredIds("tA") )
          => /\ pr.err \in {ErrNotFound, ErrStore}
             /\ pr.err = ErrStore => faults > 0
             /\ pr.got = NoRule /\ pr.results = <<>>
       /\ (pr.op = "store.ListActive" /\ pr.tenant = "tB") =>
            \A i \in 1..Len(pr.list) : pr.list[i].id \notin StoredIds("tA")
  /\ \E l \in ListActiveResults(rules, "tA") :
       heap[1] = NewEngineWithEnv("tA", CreateCELEnvFromSchema(S_USER), l)
  /\ \A row \in rules : row.tenant = "tA" => row \in UNION InitRuleTables

\* Tenant tA holds r1; an Evaluate of r1 on tB's Engine and an Update of r1
\* on tB's store have both returned "not found".
C7_Witness ==
  /\ "r1" \in StoredIds("tA")
  /\ \E p \in Procs, q \in Procs :
       /\ proc[p].op = "Evaluate" /\ proc[p].pc = "done" /\ proc[p].eng = 2
       /\ proc[p].rule.id = "r1" /\ proc[p].err = ErrNotFound
       /\ proc[q].op = "store.Update" /\ proc[q].pc = "done" /\ proc[q].tenant = "tB"
       /\ proc[q].rule.id = "r1" /\ proc[q].err = ErrNotFound

(***************************************************************************)
(* Claims about the Manager (SpecMgr).                                     *)
(***************************************************************************)
\* The Engine objects constructed for tenant t so far.
EnginesOf(t) == {e \in 1..Len(heap) : heap[e].tenant = t}

\* C3: for a tenant that has an engine, a GetEngine never fails and never
\* returns an Engine that NewEngineWithEnv has not finished building: it
\* returns an Engine built for that tenant, the old one when no other was
\* constructed; and a GetEngine that starts after an UpdateTenantSchema
\* returned nil returns the Engine that update installed (stated for the
\* case in which no other Engine than that update's old and new one was
\* constructed for the tenant).
C3_GetEngineOldOrNew ==
  \A p \in Procs :
    LET pr == proc[p] IN
    (pr.op = "GetEngine" /\ pr.pc = "done" /\ pr.old # 0) =>
      /\ pr.err = NoErr
      /\ pr.ret \in Built
      /\ heap[pr.ret].tenant = pr.tenant
      /\ EnginesOf(pr.tenant) = {pr.old} => pr.ret = pr.old
      /\ \A q \in Procs \ {p} :
           LET qr == proc[q] IN
           ( /\ qr.op = "UpdateTenantSchema" /\ qr.pc = "done" /\ qr.err = NoErr
             /\ qr.tenant = pr.tenant /\ qr.old # 0
             /\ pr.start > qr.end
             /\ EnginesOf(pr.tenant) \subseteq {qr.old, qr.ret} )
           => pr.ret = qr.ret

\* A GetEngine that started after a successful schema update of its tenant
\* and returned the Engine that update installed.
C3_Witness ==
  \E p \in Procs, q \in Procs :
    /\ proc[p].op = "GetEngine" /\ proc[p].pc = "done" /\ proc[p].old # 0
    /\ proc[q].op = "UpdateTenantSchema" /\ proc[q].pc = "done"
    /\ proc[q].err = NoErr /\ proc[q].old # 0
    /\ proc[q].tenant = proc[p].tenant
    /\ proc[p].start > proc[q].end
    /\ proc[p].ret = proc[q].ret /\ proc[p].ret # proc[q].old

\* C4: an Engine a goroutine holds a reference to is never modified by
\* UpdateTenantSchema: it stays built, with the environment and the programs
\* it had when GetEngine handed it out; an Evaluate in progress on it can
\* take its next step, and the results of Evaluate and EvaluateAll on it are
\* those computed from the programs it had then.
C4_OldEngineUntouched ==
  \A p \in Procs :
    LET pr == proc[p] IN
    pr.ref # 0 =>
      /\ heap[pr.ref].built
      /\ heap[pr.ref].tenant = pr.snap.tenant
      /\ heap[pr.ref].env = pr.snap.env
      /\ heap[pr.ref].programs = pr.snap.programs
      /\ (pr.op = "Evaluate" /\ pr.pc = "ev_lookup") => ENABLED Evaluate_Lookup(p)
      /\ (pr.op = "Evaluate" /\ pr.pc = "done" /\ pr.eng = pr.ref /\ pr.exists) =>
           pr.results = <<RuleResult(pr.snap, pr.got, pr.facts)>>
      /\ (pr.op = "EvaluateAll" /\ pr.eng = pr.ref) =>
           \A i \in 1..Len(pr.results) :
             pr.results[i] = RuleResult(pr.snap, pr.list[i], pr.facts)

\* An Evaluate that started after the update that replaced its Engine had
\* returned, and produced a result on the replaced Engine.
C4_Witness ==
  \E p \in Procs, q \in Procs :
    /\ proc[p].op = "Evaluate" /\ proc[p].pc = "done" /\ proc[p].exists
    /\ proc[p].eng = proc[p].ref /\ proc[p].results # <<>>
    /\ proc[q].op = "UpdateTenantSchema" /\ proc[q].pc = "done"
    /\ proc[q].err = NoErr /\ proc[q].old = proc[p].ref
    /\ proc[q].end < proc[p].start
    /\ EngineOf(proc[q].tenant) = proc[q].ret /\ proc[q].ret # proc[p].ref

\* C5: once an UpdateTenantSchema call for a tenant has returned and no call
\* is in progress, exactly one schema row of the tenant is active and its
\* version is the maximum version among the tenant's rows.
C5_ExactlyOneActiveSchema ==
  Quiescent =>
    \A p \in Procs :
      proc[p].op = "UpdateTenantSchema" =>
        LET act == ActiveSchemas(schemas, proc[p].tenant) IN
        /\ Cardinality(act) = 1
        /\ \A row \in act : row.version + 1 = NextVersion(schemas, proc[p].tenant)

\* C6: in every state at most one schema row per tenant is active.
C6_AtMostOneActiveSchema ==
  \A t \in Tenants : Cardinality(ActiveSchemas(schemas, t)) <= 1

\* The INSERT of an update failed after its UPDATE had deactivated the
\* tenant's rows.
C6_Witness ==
  \E p \in Procs :
    /\ proc[p].op = "UpdateTenantSchema" /\ proc[p].pc = "uts_unlock"
    /\ proc[p].err = ErrStore
    /\ \E row \in schemas : row.tenant = proc[p].tenant
    /\ ActiveSchemas(schemas, proc[p].tenant) = {}

\* The error of a schema the validator rejects.
ErrInvalidSchema == "invalid schema"

\* C21: UpdateTenantSchema (and the CreateTenant it delegates to) called with
\* a schema that ValidateSchema rejects fails with InvalidSchema, writes no
\* schema row and leaves the engines map as it was: when no statement has
\* failed the call returns InvalidSchema, and no row and no map entry ever
\* carries such a schema.
C21_InvalidSchemaRejected ==
  /\ \A p \in Procs :
       LET pr == proc[p] IN
       ( /\ pr.op = "UpdateTenantSchema" /\ pr.pc = "done"
         /\ ~ValidSchema(pr.schema) /\ faults = 0 )
       => pr.err = ErrInvalidSchema
  /\ \A row \in schemas : ValidSchema(row.definition)
  /\ \A t \in DOMAIN engines : ValidSchema(engines[t].schema)

\* C22: Engine construction compiles every active rule the store reports and
\* sets the cache.  When NewEngineWithEnv succeeds, the list it read is a
\* ListActive result of the tenant, programs holds the program of every rule
\* of that list and the cache is valid and equal to the list; when a rule of
\* the list does not compile, construction fails with the compile error and
\* the Engine is not returned.  The engines map holds constructed Engines
\* only.
C22_ConstructionCompilesAll ==
  /\ [](\A t \in DOMAIN engines : heap[engines[t].engine].built)
  /\ [][\A p \in Procs :
          ( /\ proc[p].pc \in {"uts_compile", "ct_compile"}
            /\ proc'[p] # proc[p]
            /\ faults' = faults )
          => LET en == heap'[proc[p].ret]
                 l == proc'[p].list
             IN IF proc'[p].pc \in {"uts_list", "ct_store"}
                  THEN /\ l \in ListActiveResults(rules, proc[p].tenant)
                       /\ en.built
                       /\ \A i \in 1..Len(l) :
                            /\ l[i].id \in DOMAIN en.programs
                            /\ en.programs[l[i].id] = Program(en.env, l[i].expression)
                       /\ en.cache.isValid /\ en.cache.rules = l
                  ELSE /\ proc'[p].pc \in {"uts_unlock", "ct_failed"}
                       /\ proc'[p].err = ErrCompile
                       /\ ~en.built
                       /\ \E l2 \in ListActiveResults(rules, proc[p].tenant) :
                            ~AllCompile(en.env, l2)]_vars

\* A construction succeeded on a list with a rule in it, and another failed
\* on a rule that does not compile under the new schema.
C22_Witness ==
  \E p, q \in Procs :
    /\ proc[p].pc = "uts_list" /\ Len(proc[p].list) > 0
    /\ heap[proc[p].ret].built
    /\ proc[q].op = "UpdateTenantSchema" /\ proc[q].pc = "done"
    /\ proc[q].err = ErrCompile /\ ~heap[proc[q].ret].built

(***************************************************************************)
(* Claims checked under SpecStore.                                         *)
(***************************************************************************)
\* C23: a store.Add of a rule whose id or whose name a row of that tenant,
\* not written by this call, already carries returns "already exists".
\* Stated for a call that ran alone and whose statements all ran.
C23_DuplicateIsAlreadyExists ==
  \A p \in Procs :
    LET pr == proc[p] IN
    ( /\ pr.op = "store.Add" /\ pr.pc = "done" /\ faults = 0
      /\ \A q \in Procs \ {p} : proc[q].op = ""
      /\ \E row \in rules :
           /\ row.tenant = pr.tenant
           /\ row.id = pr.rule.id \/ row.name = pr.rule.name
           /\ row # RuleRow(pr.tenant, pr.rule) )
    => pr.err = ErrAlreadyExists

\* The ids in ascending order.
IdsAscending == <<"r1", "r2">>

IdIndex(id) == CHOOSE i \in 1..Len(IdsAscending) : IdsAscending[i] = id

\* l is in ascending createdAt order with ties broken by id.
SortedByCreatedAtThenId(l) ==
  \A i, j \in 1..Len(l) :
    i < j => \/ l[i].createdAt < l[j].createdAt
             \/ l[i].createdAt = l[j].createdAt /\ IdIndex(l[i].id) < IdIndex(l[j].id)

\* C24: a ListActive whose statement ran returns exactly the active rules of
\* its tenant, each once, in ascending createdAt order with ties broken by id.
C24_ListActiveOrder ==
  [][\A p \in Procs :
       (Starts(p, "store.ListActive") /\ proc'[p].err = NoErr)
       => LET l == proc'[p].list IN
          /\ {RuleRow(proc'[p].tenant, l[i]) : i \in 1..Len(l)} = ActiveRows(rules, proc'[p].tenant)
          /\ Len(l) = Cardinality(ActiveRows(rules, proc'[p].tenant))
          /\ SortedByCreatedAtThenId(l)]_vars

\* C25: store.Update runs no statement that writes before its Get; the UPDATE
\* that finds no row of the tenant with the id, the row having been there for
\* the Get or not, returns "not found" and leaves the table as it was; the
\* UPDATE that succeeds changes that one row alone, to the caller's name,
\* expression and active flag, with updatedAt the time of the statement and
\* createdAt what it was; a failed step of Update changes no row.
C25_UpdateTimestampsAndNotFound ==
  [][\A p \in Procs :
       LET pr == proc[p]  nx == proc'[p] IN
       /\ (Starts(p, "store.Update") /\ faults' = faults) =>
             /\ rules' = rules
             /\ (nx.pc = "done") = (SelectRule(rules, nx.tenant, nx.rule.id) = {})
             /\ nx.pc = "done" => nx.err = ErrNotFound
       /\ (pr.pc = "su_exec" /\ nx # pr) =>
             LET old == SelectRule(rules, pr.tenant, pr.rule.id) IN
             /\ nx.pc = "done"
             /\ (old = {} /\ faults' = faults) => nx.err = ErrNotFound
             /\ nx.err # NoErr => rules' = rules
             /\ nx.err = NoErr =>
                   /\ old # {}
                   /\ rules' = (rules \ old) \cup
                        {[row EXCEPT !.name = pr.rule.name, !.expression = pr.rule.expression,
                                     !.active = pr.rule.active, !.updatedAt = clock] : row \in old}
                   /\ \A row \in SelectRule(rules', pr.tenant, pr.rule.id) :
                        \E o \in old : row.createdAt = o.createdAt /\ row.updatedAt = clock]_vars

\* One Update has returned "not found" after its Get had found the row, and
\* another has succeeded on a row created earlier.
C25_Witness ==
  \E p, q \in Procs :
    /\ proc[p].op = "store.Update" /\ proc[p].pc = "done"
    /\ proc[p].err = ErrNotFound /\ proc[p].exists /\ faults = 0
    /\ proc[q].op = "store.Update" /\ proc[q].pc = "done" /\ proc[q].err = NoErr
    /\ \E row \in SelectRule(rules, proc[q].tenant, proc[q].rule.id) :
         row.createdAt < row.updatedAt

\* C26: the INSERT of a store.Add that succeeds writes a row whose createdAt
\* and updatedAt are both the time of the statement.
C26_AddStampsNow ==
  [][\A p \in Procs :
       (proc[p].pc = "sa_insert" /\ proc'[p].pc = "done" /\ proc'[p].err = NoErr)
       => \E row \in SelectRule(rules', proc[p].tenant, proc[p].rule.id) :
            row.createdAt = clock /\ row.updatedAt = clock]_vars

(***************************************************************************)
(* Claims checked under SpecTenant.                                        *)
(***************************************************************************)
\* The entries of the engines map of the tenants other than t stay as they are.
OthersKept(t) ==
  /\ DOMAIN engines' \ {t} = DOMAIN engines \ {t}
  /\ \A u \in DOMAIN engines \ {t} : engines'[u] = engines[u]

\* C27: no step of a CreateTenant or DeleteTenant call writes the rules or
\* the schemas table or changes the map entry of another tenant.  The step
\* in which CreateTenant returns nil leaves the tenant in the map with the
\* Engine it built from its schema; one that returns an error leaves the map
\* as it was.  The step in which DeleteTenant returns leaves the tenant
\* out of the map, with nil when it was in and "not found", the map
\* unchanged, when it was not.  GetEngine returns the Engine of the entry
\* when the map has one and "not found" when it has none, and ListTenants
\* returns the keys of the map, each once.
C27_TenantMapFrame ==
  [][\A p \in Procs :
       LET pr == proc[p]  nx == proc'[p] IN
       /\ (nx # pr /\ nx.op \in {"CreateTenant", "DeleteTenant"}) =>
             /\ rules' = rules /\ schemas' = schemas
             /\ OthersKept(nx.tenant)
             /\ nx.pc # "done" => engines' = engines
       /\ (nx # pr /\ nx.op = "CreateTenant" /\ nx.pc = "done") =>
             IF nx.err = NoErr
               THEN /\ nx.tenant \in DOMAIN engines'
                    /\ engines'[nx.tenant] = TenantEngine(nx.schema, nx.ret)
                    /\ heap'[nx.ret].built
                    /\ heap'[nx.ret].env = CreateCELEnvFromSchema(nx.schema)
               ELSE engines' = engines
       /\ (pr.pc = "dt_delete" /\ nx # pr) =>
             /\ nx.pc = "done"
             /\ nx.tenant \notin DOMAIN engines'
             /\ nx.err = IF pr.tenant \in DOMAIN engines THEN NoErr ELSE ErrTenantNotFound
             /\ nx.err # NoErr => engines' = engines
       /\ (pr.pc = "ge_read" /\ nx # pr) =>
             IF pr.tenant \in DOMAIN engines
               THEN nx.err = NoErr /\ nx.ret = engines[pr.tenant].engine
               ELSE nx.err = ErrTenantNotFound
       /\ (pr.pc = "lt_read" /\ nx # pr) =>
             /\ {nx.tenants[i] : i \in 1..Len(nx.tenants)} = DOMAIN engines
             /\ Len(nx.tenants) = Cardinality(DOMAIN engines)]_vars

\* CreateTenant("tB", S_TXN) built and installed Engine 2, a DeleteTenant
\* of tB then removed the entry, and a GetEngine of tB after that returned
\* "not found"; the entry of tA is the one LoadAllTenants made.
C27_Witness ==
  \E p, q \in Procs :
    /\ Len(heap) >= 2 /\ heap[2].tenant = "tB" /\ heap[2].built
    /\ heap[2].env = CreateCELEnvFromSchema(S_TXN)
    /\ proc[p].op = "DeleteTenant" /\ proc[p].pc = "done" /\ proc[p].err = NoErr
    /\ proc[p].tenant = "tB" /\ proc[p].old = 2
    /\ proc[q].op = "GetEngine" /\ proc[q].pc = "done" /\ proc[q].tenant = "tB"
    /\ proc[q].err = ErrTenantNotFound
    /\ DOMAIN engines = {"tA"} /\ engines["tA"] = TenantEngine(S_USER, 1)

\* C28: an UpdateTenantSchema that found no engine for its tenant writes, in
\* the step of CreateTenant that takes the write lock, the map entry of the
\* tenant with the given schema and an Engine that is built and declares one
\* variable for each object of that schema; the steps that follow, up to the
\* return, leave the map as it is.  Once it has returned nil the map has an
\* entry for the tenant, which is the one it wrote unless another call has
\* installed an Engine for the tenant since.
C28_UpdateCreatesTenant ==
  /\ [](\A p \in Procs :
          LET pr == proc[p] IN
          ( pr.op = "UpdateTenantSchema" /\ pr.old = 0
            /\ (pr.pc = "uts_relock" \/ (pr.pc \in {"uts_unlock", "done"} /\ pr.err = NoErr)) )
          => /\ pr.tenant \in DOMAIN engines
             /\ heap[engines[pr.tenant].engine].built
             /\ \/ engines[pr.tenant] = TenantEngine(pr.schema, pr.ret)
                \/ engines[pr.tenant].engine # pr.ret)
  /\ [][\A p \in Procs :
          LET pr == proc[p] IN
          ( pr.op = "UpdateTenantSchema" /\ pr.old = 0 /\ proc'[p] # pr ) =>
            /\ pr.pc = "ct_store" =>
                  /\ engines' = MapPut(engines, pr.tenant, TenantEngine(pr.schema, pr.ret))
                  /\ heap[pr.ret].built /\ heap[pr.ret].tenant = pr.tenant
                  /\ heap[pr.ret].env = DOMAIN pr.schema
            /\ pr.pc # "ct_store" => engines' = engines]_vars

\* UpdateTenantSchema of tB, which had no engine, has returned nil and a
\* GetEngine of tB has returned the Engine it built.
C28_Witness ==
  \E p, q \in Procs :
    /\ proc[p].op = "UpdateTenantSchema" /\ proc[p].pc = "done" /\ proc[p].err = NoErr
    /\ proc[p].tenant = "tB" /\ proc[p].old = 0
    /\ engines["tB"] = TenantEngine(proc[p].schema, proc[p].ret)
    /\ proc[q].op = "GetEngine" /\ proc[q].pc = "done" /\ proc[q].err = NoErr
    /\ proc[q].tenant = "tB" /\ proc[q].ret = proc[p].ret

(***************************************************************************)
(* Claims checked under SpecResult.                                        *)
(***************************************************************************)
\* C29: the step of Evaluate that finds the program and evaluates it returns
\* one result: when the evaluation errors, the result has matched = false
\* and carries the error, and the call returns that error; when the program
\* yields a value that is no boolean, matched = false and neither the result
\* nor the call carries an error; when it yields a boolean, matched is that
\* boolean, without error.
C29_EvaluateResult ==
  [][\A p \in Procs :
       LET pr == proc[p]  nx == proc'[p]  id == pr.rule.id IN
       (pr.pc = "ev_lookup" /\ nx # pr /\ id \in DOMAIN heap[pr.eng].programs) =>
         LET out == ProgEval(heap[pr.eng].programs[id], pr.facts) IN
         /\ nx.pc = "done" /\ Len(nx.results) = 1
         /\ nx.results[1].ruleID = id
         /\ out.kind = "error" =>
               nx.err = ErrEval /\ nx.results[1].err = ErrEval /\ ~nx.results[1].matched
         /\ out.kind = "other" =>
               nx.err = NoErr /\ nx.results[1].err = NoErr /\ ~nx.results[1].matched
         /\ out.kind = "bool" =>
               nx.err = NoErr /\ nx.results[1].err = NoErr /\ nx.results[1].matched = out.val]_vars

\* One Evaluate of "User.Age" has returned matched = false without error, and
\* one whose facts lack the object has returned the error with its result.
C29_Witness ==
  \E p, q \in Procs :
    /\ proc[p].op = "Evaluate" /\ proc[p].pc = "done" /\ proc[p].exists
    /\ proc[p].rule.id \in DOMAIN heap[1].programs
    /\ heap[1].programs[proc[p].rule.id].expr = E_AGE /\ proc[p].facts = F_ADULT
    /\ proc[p].err = NoErr /\ ~proc[p].results[1].matched
    /\ proc[q].op = "Evaluate" /\ proc[q].pc = "done" /\ proc[q].exists
    /\ proc[q].err = ErrEval /\ proc[q].results[1].err = ErrEval
    /\ ~proc[q].results[1].matched

(***************************************************************************)
(* Claims checked under SpecAlias.                                         *)
(***************************************************************************)
\* C30: a step that is not a call of the cache (it leaves the fields of the
\* cache as they are), such as a write to the list a Get returned or to the
\* list that was passed to Set, leaves what a Get of the cache shows
\* unchanged.
C30_NoLiveAlias ==
  [][mem'.cache = mem.cache => CacheView(mem') = CacheView(mem)]_vars

(***************************************************************************)
(* Claims checked under SpecValidate.                                      *)
(***************************************************************************)
\* C31: ValidateSchema returns nil exactly for the schemas that have 1 to
\* 100 objects, each with 1 to 200 fields, whose object and field names have
\* 1 to 100 characters, start with a letter or underscore, go on with
\* letters, digits and underscores and are none of the 21 reserved words,
\* and whose type names are among the eight; for every other schema, a nil
\* schema and a nil inner map included, it returns an error.
C31_ValidateSchemaAcceptsExactly ==
  LET GoodName(n) ==
        /\ Len(n) \in 1..100
        /\ \A i \in 1..Len(n) : n[i] \in Letters \cup {"_"} \cup {DigitChars[d] : d \in 1..10}
        /\ n[1] \notin {DigitChars[d] : d \in 1..10}
        /\ n \notin ReservedWords
      GoodType(t) ==
        t \in {"int", "int64", "float64", "string", "bool", "bytes", "timestamp", "duration"}
      Accepted(schema) ==
        /\ Cardinality(DOMAIN schema.kv) \in 1..100
        /\ \A o \in DOMAIN schema.kv :
             /\ GoodName(o)
             /\ Cardinality(DOMAIN schema.kv[o].kv) \in 1..200
             /\ \A f \in DOMAIN schema.kv[o].kv : GoodName(f) /\ GoodType(schema.kv[o].kv[f])
  IN /\ Cardinality(ReservedWords) = 21
     /\ \A p \in Procs :
          (proc[p].op = "ValidateSchema" /\ proc[p].pc = "done")
          => (proc[p].err = NoErr) = Accepted(proc[p].schema)

\* A schema with exactly 100 objects has been accepted.
C31_Witness ==
  \E p \in Procs :
    /\ proc[p].op = "ValidateSchema" /\ proc[p].pc = "done" /\ proc[p].err = NoErr
    /\ MapLen(proc[p].schema) = MaxObjects

(***************************************************************************)
(* Claims checked under SpecCost.                                          *)
(***************************************************************************)
\* C32: the step that evaluates a program whose evaluation costs more than
\* 1,000,000 units ends with a result that has matched = false and carries
\* the evaluation error; Evaluate returns that error, and EvaluateAll appends
\* the result and goes on with the next rule of its list when there is one.
C32_CostLimitStopsEvaluation ==
  [][\A p \in Procs :
       LET pr == proc[p]  nx == proc'[p]  en == heap[pr.eng] IN
       /\ ( /\ pr.pc = "ev_lookup" /\ nx # pr /\ pr.rule.id \in DOMAIN en.programs
            /\ ExprVars(en.programs[pr.rule.id].expr) \subseteq DOMAIN pr.facts
            /\ Cost(en.programs[pr.rule.id].expr, pr.facts) > 1000000 )
          => /\ nx.pc = "done" /\ nx.err = ErrEval
             /\ nx.results[1].err = ErrEval /\ ~nx.results[1].matched
       /\ ( pr.pc = "ea_loop" /\ nx # pr ) =>
            LET r == pr.list[Len(pr.results) + 1] IN
            ( /\ r.id \in DOMAIN en.programs
              /\ ExprVars(en.programs[r.id].expr) \subseteq DOMAIN pr.facts
              /\ Cost(en.programs[r.id].expr, pr.facts) > 1000000 )
            => /\ Len(nx.results) = Len(pr.results) + 1
               /\ nx.results[Len(nx.results)].ruleID = r.id
               /\ nx.results[Len(nx.results)].err = ErrEval
               /\ ~nx.results[Len(nx.results)].matched
               /\ IF Len(nx.results) < Len(pr.list) THEN nx.pc = "ea_loop"
                  ELSE nx.pc = "done" /\ nx.err = NoErr]_vars

\* An EvaluateAll has returned two results: the error of the costly rule r1
\* and, after it, the match of r2.
C32_Witness ==
  \E p \in Procs :
    /\ proc[p].op = "EvaluateAll" /\ proc[p].pc = "done" /\ proc[p].err = NoErr
    /\ Len(proc[p].results) = 2
    /\ proc[p].list[1].expression = E_COSTLY
    /\ proc[p].results[1].err = ErrEval /\ ~proc[p].results[1].matched
    /\ proc[p].results[2].err = NoErr /\ proc[p].results[2].matched

(***************************************************************************)
(* Claims checked under SpecRelock.                                        *)
(***************************************************************************)
\* C33: every Unlock that an UpdateTenantSchema call runs (the one before
\* CreateTenant in the missing-tenant branch, the one inside CreateTenant
\* and the deferred one) finds the Manager mutex write-locked by the caller;
\* the call returns leaving the mutex unlocked; and every call that has
\* started returns.
C33_UpdateTenantSchemaLocking ==
  /\ [][\A p \in Procs :
          LET pr == proc[p]  nx == proc'[p] IN
          (pr.op = "UpdateTenantSchema" /\ nx # pr) =>
            /\ pr.pc \in {"uts_unlock_create", "ct_write", "uts_unlock"}
                 => mmu.w = p /\ mmu.r = {}
            /\ nx.pc = "done" => mmu'.w = "" /\ mmu'.r = {} /\ pr.pc = "uts_unlock"]_vars
  /\ \A p \in Procs :
       (proc[p].op = "UpdateTenantSchema" /\ ~Idle(p)) ~> Idle(p)

\* An UpdateTenantSchema of a tenant without an engine has returned nil
\* with the mutex unlocked, while the other goroutine, in the same branch of
\* its own call, has written its entry and is about to lock the mutex again.
C33_Witness ==
  \E p \in Procs : \E q \in Procs \ {p} :
    /\ proc[p].op = "UpdateTenantSchema" /\ proc[p].pc = "done"
    /\ proc[p].old = 0 /\ proc[p].err = NoErr
    /\ mmu.w = ""
    /\ proc[q].op = "UpdateTenantSchema" /\ proc[q].pc = "uts_relock"

\* C34: a step of an Evaluate or EvaluateAll call leaves the rules table, the
\* schemas table, the engines map and, on every Engine, the programs map and
\* the environment as they were, and creates no Engine.  The only thing such
\* a step may change is the cache of the Engine it runs on, and only in the
\* cache.Set of an EvaluateAll whose cache.Get missed.
C34_EvaluationFrame ==
  [][\A p \in Procs :
       LET pr == proc[p]  nx == proc'[p] IN
       (nx # pr /\ nx.op \in {"Evaluate", "EvaluateAll"}) =>
         /\ rules' = rules /\ schemas' = schemas /\ engines' = engines
         /\ Len(heap') = Len(heap)
         /\ \A e \in 1..Len(heap) :
              /\ heap'[e].programs = heap[e].programs
              /\ heap'[e].env = heap[e].env
              /\ heap'[e] # heap[e] =>
                   /\ e = pr.eng /\ pr.op = "EvaluateAll" /\ pr.pc = "ea_set"
                   /\ ~pr.hit
                   /\ heap'[e] = [heap[e] EXCEPT !.cache = CacheSet(heap[e].cache, pr.list)]]_vars

\* An EvaluateAll that missed the cache has listed two rules, set the cache
\* to that list and returned a result for each.
C34_Witness ==
  \E p \in Procs :
    /\ proc[p].op = "EvaluateAll" /\ proc[p].pc = "done" /\ ~proc[p].hit
    /\ proc[p].err = NoErr /\ Len(proc[p].list) = 2 /\ Len(proc[p].results) = 2
    /\ heap[proc[p].eng].cache = CacheSet(heap[proc[p].eng].cache, proc[p].list)

(***************************************************************************)
(* Claims checked under Spec.                                              *)
(***************************************************************************)
\* C35: on tenant tA's Engine an id enters the programs map only in a step
\* of an AddRule call (an UpdateRule step never creates an entry for an id
\* that has none) and leaves the map only in a step of a DeleteRule call.
C35_EntryLifecycle ==
  [][\A id \in RuleIds :
       LET was == id \in DOMAIN heap[1].programs
           is == id \in DOMAIN heap'[1].programs
       IN
       /\ (~was /\ is) =>
            \E p \in Procs : proc'[p] # proc[p] /\ proc'[p].op = "AddRule"
       /\ (was /\ ~is) =>
            \E p \in Procs : proc'[p] # proc[p] /\ proc'[p].op = "DeleteRule"]_vars

(***************************************************************************)
(* Claims checked under SpecCacheOps.                                      *)
(***************************************************************************)
\* C36: a new cache is invalid.  Get returns a list (non-nil, the empty list
\* included) exactly when IsValid reports true, and the list it returns has
\* the elements of the list the cache holds.  Set(l) makes the cache valid
\* and holding the elements of l; while the cache stays valid the list it
\* holds changes only in a Set.  Invalidate makes the cache invalid, and an
\* invalid cache becomes valid only in a Set.
C36_CacheContract ==
  /\ ~Cache_IsValid
  /\ [][
         /\ Cache_Get =>
            /\ (mem'.got # 0) = Cache_IsValid
            /\ Cache_IsValid => mem'.arrays[mem'.got] = mem.arrays[mem.cache.rules]
            /\ mem'.cache = mem.cache
         /\ \A a \in 1..MaxArrays :
              Cache_Set(a) => /\ Cache_IsValid'
                              /\ mem'.arrays[mem'.cache.rules] = mem.arrays[a]
         /\ Cache_Invalidate => ~Cache_IsValid'
         /\ (~Cache_IsValid /\ Cache_IsValid') => \E a \in 1..MaxArrays : Cache_Set(a)
         /\ (Cache_IsValid /\ Cache_IsValid' /\ ~\E a \in 1..MaxArrays : Cache_Set(a)) =>
              mem'.arrays[mem'.cache.rules] = mem.arrays[mem.cache.rules]]_vars

\* The client has passed the empty list to Set and the Get after it returned
\* a list: non-nil and empty.
C36_Witness ==
  /\ Cache_IsValid /\ mem.arrays[mem.cache.rules] = <<>>
  /\ mem.arg # 0 /\ mem.arrays[mem.arg] = <<>>
  /\ mem.got # 0 /\ mem.arrays[mem.got] = <<>>

\* C37: when every call on tenant tA's Engine has returned (and no statement
\* has failed), every rule the store holds for tA has an entry in the
\* Engine's programs map.  The rows are those the Engine compiled when it was
\* built and those its AddRule and UpdateRule calls wrote.
C37_StoredRulesStayCompiled ==
  (Quiescent /\ faults = 0) =>
    \A id \in StoredIds("tA") : id \in DOMAIN heap[1].programs

(***************************************************************************)
(* Claims checked under SpecHandler.                                       *)
(***************************************************************************)
\* C38: when every call has returned (and no statement has failed), the id
\* of a rule whose AddRule returned nil has an entry in the programs map of
\* the Engine the Manager holds for tenant tA, which is the Engine a later
\* GetEngine returns, whether or not the AddRule ran on that Engine.
C38_AddedRuleOnCurrentEngine ==
  \A p \in Procs :
    LET pr == proc[p] IN
    (Quiescent /\ faults = 0 /\ pr.op = "AddRule" /\ pr.err = NoErr) =>
      pr.rule.id \in DOMAIN heap[EngineOf("tA")].programs

(***************************************************************************)
(* Claims about a returning UpdateTenantSchema (SpecMgr).                  *)
(***************************************************************************)
\* C39: in the step in which an UpdateTenantSchema call returns, with nil or
\* with an error, the schema of the tenant's entry in the engines map is the
\* definition of every schema row of the tenant that is active.  Stated for
\* the behaviours in which no statement has failed.
C39_MemorySchemaIsActiveRow ==
  [][\A p \in Procs :
       LET pr == proc[p]  nx == proc'[p] IN
       (pr.op = "UpdateTenantSchema" /\ pr.pc # "done" /\ nx.pc = "done"
          /\ pr.tenant \in DOMAIN engines' /\ faults' = 0) =>
         \A row \in ActiveSchemas(schemas', pr.tenant) :
           engines'[pr.tenant].schema = row.definition]_vars

\* C40 (checked under SpecRelock): from the Lock of an UpdateTenantSchema
\* call for a tenant that has an engine to its return, no step of any
\* goroutine changes the entry of another tenant; and when the call returns
\* an error, the tenant's entry refers to the Engine it referred to when the
\* call took the lock.
C40_FailedUpdateKeepsEngines ==
  [][\A p \in Procs :
       LET pr == proc[p]  nx == proc'[p] IN
       (pr.op = "UpdateTenantSchema" /\ pr.old # 0 /\ pr.pc # "done") =>
         /\ \A u \in Tenants \ {pr.tenant} :
              /\ (u \in DOMAIN engines') = (u \in DOMAIN engines)
              /\ u \in DOMAIN engines => engines'[u] = engines[u]
         /\ (nx.pc = "done" /\ nx.err # NoErr) =>
              /\ pr.tenant \in DOMAIN engines'
              /\ engines'[pr.tenant].engine = pr.old]_vars

\* An UpdateTenantSchema of tenant tA, which has an engine, has returned an
\* error after it built a new Engine; the map still holds tA's first Engine
\* and the entry another call created for tenant tB.
C40_Witness ==
  \E p \in Procs :
    /\ proc[p].op = "UpdateTenantSchema" /\ proc[p].pc = "done"
    /\ proc[p].tenant = "tA" /\ proc[p].old = 1 /\ proc[p].err # NoErr
    /\ proc[p].ret # 0
    /\ EngineOf("tA") = 1
    /\ "tB" \in DOMAIN engines

====
